---- MODULE Spec2Model ----
(***************************************************************************)
(* Model of the c3 session-state reconciliation engine:                    *)
(*   src/src-tauri/src/lib.rs          AppState, handle_hook_request, ...  *)
(*   src/src-tauri/src/tmux_scanner.rs scan_tmux, detect_state_from_jsonl  *)
(*                                                                         *)
(* Hook handlers are tokio tasks and the scanner is another task on the    *)
(* multi-threaded runtime, so they interleave at every point where no      *)
(* parking_lot lock is held.  One action of the model is one critical      *)
(* section of the source (one lock acquisition) together with the purely   *)
(* local computation that precedes and follows it.                         *)
(*                                                                         *)
(* Option<T> is modelled as a sequence: <<>> is None, <<x>> is Some(x).    *)
(* HashMap<K, V> is modelled as a function whose DOMAIN is the key set.    *)
(* Instants are milliseconds on the model clock `now`.                     *)
(***************************************************************************)
EXTENDS Integers, Sequences, FiniteSets, TLC

(***************************************************************************)
(* Bounds of the model.                                                    *)
(***************************************************************************)
MaxHandlers == 3        \* hook requests the hook server accepts in a run
RaceHandlers == 2       \* of which may be served concurrently in SpecTwo
MaxTicks == 2           \* clock advances in a run
MaxRequests == 52       \* requests one connection slot serves in SpecLog

(***************************************************************************)
(* Program constants.                                                      *)
(***************************************************************************)
HOOK_GRACE_PERIOD_SECS == 10
DEBOUNCE_MILLIS == 1000
MAX_HOOK_EVENTS == 50
MAX_COMMAND_LEN == 100
COMMAND_KEEP_LEN == 97
STALE_INPUT_SECS == 15
STALE_TOOL_SECS == 5
READ_LINES == 30

(***************************************************************************)
(* The environment the model draws its inputs from.                        *)
(***************************************************************************)
Targets == {"a:0.0", "b:0.0"}                        \* tmux pane addresses
HookCwds == {"/p", "/p/s", "/q"}              \* working directories of hook requests
PaneCwds == {"/p", "/p/s"}                    \* working directories of panes
TickSteps == {500, 10000}                     \* clock advances, in ms
Handlers == 1..MaxHandlers

None == <<>>
Some(x) == <<x>>
IsSome(o) == o # <<>>
Unwrap(o) == o[1]

SessionStates ==
    {"Spawning", "Processing", "AwaitingInput", "AwaitingPermission",
     "Complete", "Error"}

HookTypes ==
    {"PermissionRequest", "Notification", "Stop", "SessionStart",
     "PostToolUse", "SubagentStop"}

(***************************************************************************)
(* HashMap helpers.                                                        *)
(***************************************************************************)
MapInsert(m, k, v) ==
    [x \in (DOMAIN m) \cup {k} |-> IF x = k THEN v ELSE m[x]]

MapRemove(m, k) == [x \in (DOMAIN m) \ {k} |-> m[x]]

EmptyMap == [x \in {} |-> 0]

(***************************************************************************)
(* str::starts_with                                                        *)
(***************************************************************************)
StartsWith(s, p) == Len(p) <= Len(s) /\ SubSeq(s, 1, Len(p)) = p

(***************************************************************************)
(* Duration::as_secs of Instant::elapsed, Duration::as_millis              *)
(***************************************************************************)
ElapsedSecs(t, clock) == (clock - t) \div 1000

ElapsedMillis(t, clock) == clock - t


(***************************************************************************)
(* State.                                                                  *)
(***************************************************************************)
VARIABLES
    sessions,                 \* AppState.sessions: id -> C3Session
    hook_timestamps,          \* AppState.hook_timestamps: id -> Instant
    stop_timestamps,          \* AppState.stop_timestamps: id -> Instant
    notification_timestamps,  \* AppState.notification_timestamps: id -> Instant
    hook_events,              \* AppState.hook_events: Vec<HookEvent>
    handlers,                 \* the handle_hook_request tasks, by request number
    scan,                     \* the scanner task: position in scan_tmux and its locals
    now,                      \* the clock (ms)
    ticks                     \* clock advances so far

vars ==
    <<sessions, hook_timestamps, stop_timestamps, notification_timestamps,
      hook_events, handlers, scan, now, ticks>>

\* A command is the sequence of its UTF-8 bytes; CONTINUATION_BYTE stands for
\* a byte that continues a character (0x80..0xBF).  str::is_char_boundary:
\* the byte at the index, counted from 0, starts a character.
CONTINUATION_BYTE == "~"

IsCharBoundary(s, index) ==
    \/ index = 0
    \/ index = Len(s)
    \/ index < Len(s) /\ SubSeq(s, index + 1, index + 1) # CONTINUATION_BYTE

\* lib.rs 1230-1231, tmux_scanner.rs 343-344: &s[..97] panics when byte 97
\* does not start a character.
TruncatePanics(s) ==
    Len(s) > MAX_COMMAND_LEN /\ ~IsCharBoundary(s, COMMAND_KEEP_LEN)

(***************************************************************************)
(* PendingAction values.                                                   *)
(***************************************************************************)
TruncateCommand(s) ==
    IF Len(s) > MAX_COMMAND_LEN
    THEN SubSeq(s, 1, COMMAND_KEEP_LEN) \o "..."
    ELSE s

UnwrapOr(o, d) == IF o = None THEN d ELSE Unwrap(o)

PermissionAction(tool_name, command) ==
    [action_type |-> "permission",
     description |-> "Wants to use " \o UnwrapOr(tool_name, "a tool"),
     tool |-> tool_name,
     command |-> IF command = None THEN None ELSE Some(TruncateCommand(Unwrap(command)))]

InputAction ==
    [action_type |-> "input",
     description |-> "Waiting for user input",
     tool |-> None,
     command |-> None]

(***************************************************************************)
(* AppState::log_hook_event                                                *)
(***************************************************************************)
\* A log that, once full, refuses the new entry instead of evicting the oldest.
LogHookEventKeepOldest(events, event) ==
    IF Len(events) >= MAX_HOOK_EVENTS THEN events ELSE Append(events, event)

LogHookEvent(events, event) ==
    LET pushed == Append(events, event)
    IN  IF Len(pushed) > MAX_HOOK_EVENTS
        THEN SubSeq(pushed, Len(pushed) - MAX_HOOK_EVENTS + 1, Len(pushed))
        ELSE pushed

HookEvent(timestamp, hook_type, cwd, matched_session, new_state, skipped, skip_reason) ==
    [timestamp |-> timestamp, hook_type |-> hook_type, cwd |-> cwd, matched_session |-> matched_session,
     new_state |-> new_state, skipped |-> skipped, skip_reason |-> skip_reason]

(***************************************************************************)
(* handle_hook_request: the hook_info table                                *)
(***************************************************************************)
HookNewStateSwapped(hook_type) ==
    CASE hook_type = "PermissionRequest" -> Some("AwaitingPermission")
      [] hook_type = "Notification"      -> Some("AwaitingInput")
      [] hook_type = "Stop"              -> Some("Complete")
      [] hook_type = "SessionStart"      -> Some("Spawning")
      [] hook_type = "PostToolUse"       -> Some("Processing")
      [] OTHER                           -> None

HookNewState(hook_type) ==
    CASE hook_type = "PermissionRequest" -> Some("AwaitingPermission")
      [] hook_type = "Notification"      -> Some("AwaitingInput")
      [] hook_type = "Stop"              -> Some("Complete")
      [] hook_type = "SessionStart"      -> Some("Processing")
      [] hook_type = "PostToolUse"       -> Some("Processing")
      [] OTHER                           -> None

HookNotifMessage(hook_type) ==
    CASE hook_type = "PermissionRequest" -> "Claude needs permission to continue"
      [] hook_type = "Notification"      -> "Claude is waiting for your response"
      [] hook_type = "Stop"              -> "Claude has finished processing"
      [] hook_type = "SessionStart"      -> "Session started"
      [] OTHER                           -> ""

(***************************************************************************)
(* handle_hook_request: session lookup by cwd.  HashMap::values().find()   *)
(* returns the first match in the map's iteration order, which the program *)
(* does not control: any matching session may be the one found.            *)
(***************************************************************************)
ExactMatches(ss, cwd) ==
    {k \in DOMAIN ss : ss[k].project_path = Some(cwd)}

PrefixMatches(ss, cwd) ==
    {k \in DOMAIN ss :
        /\ IsSome(ss[k].project_path)
        /\ \/ StartsWith(cwd, Unwrap(ss[k].project_path))
           \/ StartsWith(Unwrap(ss[k].project_path), cwd)}

FindCandidatesAnyPrefix(ss, cwd) == PrefixMatches(ss, cwd)

FindCandidates(ss, cwd) ==
    IF ExactMatches(ss, cwd) # {} THEN ExactMatches(ss, cwd) ELSE PrefixMatches(ss, cwd)

(***************************************************************************)
(* handle_hook_request: the recently_stopped block                         *)
(***************************************************************************)
StopCandidates(ss, cwd) == ExactMatches(ss, cwd)

RecentlyStopped(stops, sid, clock) ==
    /\ sid \in DOMAIN stops
    /\ ElapsedSecs(stops[sid], clock) < HOOK_GRACE_PERIOD_SECS

(***************************************************************************)
(* handle_hook_request: should_skip                                        *)
(***************************************************************************)
ShouldSkipNever(ss, sid, new_state) == FALSE

ShouldSkip(ss, sid, new_state) ==
    /\ sid \in DOMAIN ss
    /\ ss[sid].state = "Complete"
    /\ new_state = "AwaitingInput"

(***************************************************************************)
(* handle_hook_request: the write under sessions.write()                   *)
(***************************************************************************)
HookPendingAction(new_state, tool_name, command) ==
    IF new_state = "AwaitingPermission"
    THEN Some(PermissionAction(tool_name, command))
    ELSE None

HookUpdate(session, new_state, tool_name, command, clock) ==
    [session EXCEPT
        !.state = new_state,
        !.last_activity = clock,
        !.pending_action = HookPendingAction(new_state, tool_name, command)]

(***************************************************************************)
(* handle_hook_request: the debounce block                                 *)
(***************************************************************************)
DebounceAllowsAlways(timestamps, sid, clock) == TRUE

\* A gate that still suppresses a request exactly DEBOUNCE_MILLIS after the mark.
DebounceAllowsLate(timestamps, sid, clock) ==
    IF sid \in DOMAIN timestamps
    THEN ~(ElapsedMillis(timestamps[sid], clock) <= DEBOUNCE_MILLIS)
    ELSE TRUE

DebounceAllows(timestamps, sid, clock) ==
    IF sid \in DOMAIN timestamps
    THEN ~(ElapsedMillis(timestamps[sid], clock) < DEBOUNCE_MILLIS)
    ELSE TRUE

(***************************************************************************)
(* Hook requests (struct HookNotification: hook_type, cwd, tool_name,      *)
(* tool_input, skip_permissions) and the handle_hook_request task that     *)
(* serves each.                                                            *)
(*                                                                         *)
(* A task is at one of these places (pc):                                  *)
(*   "idle"        the request has not arrived                             *)
(*   "match"       before the session lookup (lib.rs 1158)                 *)
(*   "skip_check"  before the should_skip read (lib.rs 1182)               *)
(*   "write"       before sessions.write() (lib.rs 1209)                   *)
(*   "mark_hook"   before hook_timestamps.write() (lib.rs 1255)            *)
(*   "mark_stop"   before stop_timestamps.write() (lib.rs 1258)            *)
(*   "debounce"    before notification_timestamps.write() (lib.rs 1295)    *)
(*   "done"        answered                                                *)
(*   "panicked"    unwound by a panic, the request unanswered              *)
(* Code that touches no shared state (parsing, the hook_info table, the    *)
(* response) runs with the critical section next to it.  log_hook_event    *)
(* takes only the hook_events lock, which nothing else reads; it is run    *)
(* with the critical section that precedes it.                             *)
(*                                                                         *)
(* wrote, marked, stopped, emitted, asked, delivered and logged record     *)
(* what the task has done: the registry write, the two timestamp marks,    *)
(* the session-update event, the time of its call on the debounce gate,    *)
(* the OS notification, and the decision-log entries it appended.          *)
(***************************************************************************)
ToolInputs ==
    {[tool_name |-> None, command |-> None],
     [tool_name |-> Some("Bash"), command |-> Some("ls -la")]}

IdleHandler ==
    [pc |-> "idle", hook_type |-> "", cwd |-> "", session_id |-> None,
     response |-> None, wrote |-> FALSE, marked |-> FALSE, stopped |-> FALSE,
     emitted |-> FALSE, asked |-> None, delivered |-> FALSE, logged |-> <<>>,
     served |-> 0]

HandlerNewState(h) == Unwrap(HookNewState(handlers[h].hook_type))

Answered(hd, event, response) ==
    [hd EXCEPT !.logged = Append(@, event), !.response = Some(response), !.pc = "done"]

\* A no-match path that answers without leaving an entry in the log.
UnmatchedUnlogged(hd, event, notifications_enabled, clock) ==
    [hd EXCEPT
        !.session_id = None,
        !.asked = Some(clock),
        !.delivered = notifications_enabled /\ HookNotifMessage(hd.hook_type) # "",
        !.response = Some("no_match"),
        !.pc = "done"]

\* A handler that sends no notification for a request that matched no session.
UnmatchedSilent(hd, event, notifications_enabled, clock) ==
    [hd EXCEPT
        !.session_id = None,
        !.logged = Append(@, event),
        !.asked = Some(clock),
        !.delivered = FALSE,
        !.response = Some("no_match"),
        !.pc = "done"]

\* lib.rs 1293-1311 for a request that matched no session: should_notify is
\* true and the debounce table is not consulted.
Unmatched(hd, event, notifications_enabled, clock) ==
    [hd EXCEPT
        !.session_id = None,
        !.logged = Append(@, event),
        !.asked = Some(clock),
        !.delivered = notifications_enabled /\ HookNotifMessage(hd.hook_type) # "",
        !.response = Some("no_match"),
        !.pc = "done"]

\* lib.rs 1158-1207, 1262-1273: the lookup under sessions.read(); with no
\* match the event is logged, the notification sent and the request answered.
Matched(hd, ss, notifications_enabled, clock) ==
    LET cands == FindCandidates(ss, hd.cwd)
        event == HookEvent(clock, hd.hook_type, hd.cwd, None, Unwrap(HookNewState(hd.hook_type)),
                           TRUE, Some("no matching session"))
    IN  IF cands = {}
        THEN {Unmatched(hd, event, notifications_enabled, clock)}
        ELSE {[hd EXCEPT !.session_id = Some(sid), !.pc = "skip_check"] : sid \in cands}

\* lib.rs 1074-1090: recently_stopped, read under sessions.read() and
\* stop_timestamps.read().
StopVerdicts(ss, stops, cwd, clock) ==
    IF StopCandidates(ss, cwd) = {} THEN {FALSE}
    ELSE {RecentlyStopped(stops, sid, clock) : sid \in StopCandidates(ss, cwd)}

\* A flag that would skip events of every type.
SkipsEveryType(hook_type, skip_permissions) == skip_permissions

\* lib.rs 1052: the test made before anything else is read.
SkipsPermissionRequest(hook_type, skip_permissions) ==
    skip_permissions /\ hook_type = "PermissionRequest"

\* lib.rs 1038-1156 and the first critical section: a request arrives.
\*  - PermissionRequest with skip_permissions: logged, answered (1051-1070);
\*  - Notification: the recently_stopped read; suppressed, logged and answered
\*    when a Stop fired recently (1072-1109), else on to the lookup;
\*  - a type outside the table: answered "unknown_hook", no log entry (1145-1156);
\*  - any other type: the lookup (1158-1178).
HookReceive(h, hook_type, cwd, skip_permissions, notifications_enabled) ==
    /\ handlers[h].pc = "idle"
    /\ h > 1 => handlers[h - 1].pc # "idle"
    /\ LET req == [handlers[h] EXCEPT !.hook_type = hook_type, !.cwd = cwd]
       IN  IF SkipsPermissionRequest(hook_type, skip_permissions)
           THEN handlers' = [handlers EXCEPT ![h] =
                   Answered(req, HookEvent(now, hook_type, cwd, None, "n/a", TRUE,
                                           Some("--dangerously-skip-permissions")),
                            "skipped:skip_permissions")]
           ELSE IF hook_type = "Notification"
           THEN \E recently_stopped \in StopVerdicts(sessions, stop_timestamps, cwd, now) :
                   handlers' = [handlers EXCEPT ![h] =
                      IF recently_stopped
                      THEN Answered(req, HookEvent(now, hook_type, cwd, None, "n/a", TRUE,
                                                   Some("Stop fired recently")),
                                    "skipped:stop_recently")
                      ELSE [req EXCEPT !.pc = "match"]]
           ELSE IF HookNewState(hook_type) = None
           THEN handlers' = [handlers EXCEPT ![h] =
                   [req EXCEPT !.response = Some("unknown_hook"), !.pc = "done"]]
           ELSE \E hd \in Matched(req, sessions, notifications_enabled, now) :
                   handlers' = [handlers EXCEPT ![h] = hd]
    /\ hook_events' =
          IF Len(handlers'[h].logged) > 0
          THEN LogHookEvent(hook_events, handlers'[h].logged[1])
          ELSE hook_events
    /\ UNCHANGED <<sessions, hook_timestamps, stop_timestamps,
                   notification_timestamps, scan, now, ticks>>

\* lib.rs 1158-1178 for a Notification that was not suppressed.
HookMatch(h, notifications_enabled) ==
    /\ handlers[h].pc = "match"
    /\ \E hd \in Matched(handlers[h], sessions, notifications_enabled, now) :
          handlers' = [handlers EXCEPT ![h] = hd]
    /\ hook_events' =
          IF Len(handlers'[h].logged) > 0
          THEN LogHookEvent(hook_events, handlers'[h].logged[1])
          ELSE hook_events
    /\ UNCHANGED <<sessions, hook_timestamps, stop_timestamps,
                   notification_timestamps, scan, now, ticks>>

\* lib.rs 1180-1207: should_skip, read under a second sessions.read(); the
\* ignored Notification is logged and answered.
HookSkipCheck(h) ==
    /\ handlers[h].pc = "skip_check"
    /\ LET sid == Unwrap(handlers[h].session_id)
           event == HookEvent(now, handlers[h].hook_type, handlers[h].cwd, Some(sid),
                              HandlerNewState(h), TRUE,
                              Some("session already Complete"))
       IN  IF ShouldSkip(sessions, sid, HandlerNewState(h))
           THEN /\ handlers' = [handlers EXCEPT ![h] =
                       Answered(handlers[h], event, "matched:" \o sid)]
                /\ hook_events' = LogHookEvent(hook_events, event)
           ELSE /\ handlers' = [handlers EXCEPT ![h].pc = "write"]
                /\ hook_events' = hook_events
    /\ UNCHANGED <<sessions, hook_timestamps, stop_timestamps,
                   notification_timestamps, scan, now, ticks>>

\* A handler that updates every session of the matched session's path.
WriteSessionsOfPath(ss, sid, new_state, input, clock) ==
    [id \in DOMAIN ss |->
        IF ss[id].project_path = ss[sid].project_path
        THEN HookUpdate(ss[id], new_state, input.tool_name, input.command, clock)
        ELSE ss[id]]

\* lib.rs 1209-1239: get_mut(sid) and the assignments to the one record.
WriteSession(ss, sid, new_state, input, clock) ==
    [ss EXCEPT ![sid] = HookUpdate(ss[sid], new_state, input.tool_name, input.command, clock)]

\* lib.rs 1212-1234: the command is truncated after state and last_activity
\* have been assigned; a panic there unwinds the task, which releases the
\* write guard and ends the handler.
HookWritePanics(new_state, command) ==
    new_state = "AwaitingPermission" /\ IsSome(command) /\ TruncatePanics(Unwrap(command))

\* lib.rs 1209-1253: the record is rewritten under sessions.write() and the
\* write is logged; when the session is gone the if-let is skipped and the
\* task goes on to the debounce block.  input is the request's tool_name and
\* tool_input.command, which only this block reads.
\* A handler that goes on to its marks whether or not it found the record.
HookWriteUnchecked(h, input) ==
    /\ handlers[h].pc = "write"
    /\ handlers' = [handlers EXCEPT ![h].wrote = TRUE, ![h].pc = "mark_hook"]
    /\ UNCHANGED <<sessions, hook_events, hook_timestamps, stop_timestamps,
                   notification_timestamps, scan, now, ticks>>

HookWrite(h, input) ==
    /\ handlers[h].pc = "write"
    /\ LET sid == Unwrap(handlers[h].session_id)
           event == HookEvent(now, handlers[h].hook_type, handlers[h].cwd,
                              handlers[h].session_id, HandlerNewState(h), FALSE, None)
       IN  IF sid \in DOMAIN sessions /\ HookWritePanics(HandlerNewState(h), input.command)
           THEN /\ sessions' = [sessions EXCEPT ![sid].state = HandlerNewState(h),
                                                ![sid].last_activity = now]
                /\ hook_events' = hook_events
                /\ handlers' = [handlers EXCEPT ![h].pc = "panicked"]
           ELSE IF sid \in DOMAIN sessions
           THEN /\ sessions' = WriteSession(sessions, sid, HandlerNewState(h), input, now)
                /\ hook_events' = LogHookEvent(hook_events, event)
                /\ handlers' = [handlers EXCEPT ![h].wrote = TRUE,
                                                ![h].logged = Append(@, event),
                                                ![h].pc = "mark_hook"]
           ELSE /\ sessions' = sessions
                /\ hook_events' = hook_events
                /\ handlers' = [handlers EXCEPT ![h].pc = "debounce"]
    /\ UNCHANGED <<hook_timestamps, stop_timestamps, notification_timestamps,
                   scan, now, ticks>>

\* A handler that records a stop for events of every type.
MarksStopEveryType(hook_type) == TRUE

\* lib.rs 1257: the test before the stop_timestamps insert.
MarksStop(hook_type) == hook_type = "Stop"

\* lib.rs 1254-1260: hook_timestamps.write().insert; for every type but Stop
\* the session-update event follows at once.
HookMarkHook(h) ==
    /\ handlers[h].pc = "mark_hook"
    /\ hook_timestamps' =
          MapInsert(hook_timestamps, Unwrap(handlers[h].session_id), now)
    /\ handlers' = [handlers EXCEPT
          ![h].marked = TRUE,
          ![h].emitted = ~MarksStop(handlers[h].hook_type),
          ![h].pc = IF MarksStop(handlers[h].hook_type) THEN "mark_stop" ELSE "debounce"]
    /\ UNCHANGED <<sessions, stop_timestamps, notification_timestamps,
                   hook_events, scan, now, ticks>>

\* lib.rs 1256-1260: stop_timestamps.write().insert, then the session-update event.
HookMarkStop(h) ==
    /\ handlers[h].pc = "mark_stop"
    /\ stop_timestamps' =
          MapInsert(stop_timestamps, Unwrap(handlers[h].session_id), now)
    /\ handlers' = [handlers EXCEPT ![h].stopped = TRUE, ![h].emitted = TRUE,
                                    ![h].pc = "debounce"]
    /\ UNCHANGED <<sessions, hook_timestamps, notification_timestamps,
                   hook_events, scan, now, ticks>>

\* A gate that records a mark only for a notification that is delivered.
RecordsMarkWhenDelivered(should_notify, notifications_enabled, notif_message) ==
    should_notify /\ notifications_enabled /\ notif_message # ""

\* lib.rs 1294-1309: the mark is inserted wherever should_notify comes out
\* true, before the settings and the message are looked at (1314).
RecordsMark(should_notify, notifications_enabled, notif_message) == should_notify

\* lib.rs 1293-1363: the debounce gate under notification_timestamps.write(),
\* then the OS notification (settings.notifications_enabled comes from the
\* settings file) and the response.
HookDebounce(h, notifications_enabled) ==
    /\ handlers[h].pc = "debounce"
    /\ LET sid == Unwrap(handlers[h].session_id)
           should_notify == DebounceAllows(notification_timestamps, sid, now)
       IN  /\ notification_timestamps' =
                 IF RecordsMark(should_notify, notifications_enabled,
                                HookNotifMessage(handlers[h].hook_type))
                 THEN MapInsert(notification_timestamps, sid, now)
                 ELSE notification_timestamps
           /\ handlers' = [handlers EXCEPT
                 ![h].asked = Some(now),
                 ![h].delivered = /\ should_notify
                                  /\ notifications_enabled
                                  /\ HookNotifMessage(handlers[h].hook_type) # "",
                 ![h].response = Some("matched:" \o sid),
                 ![h].pc = "done"]
    /\ UNCHANGED <<sessions, hook_timestamps, stop_timestamps, hook_events,
                   scan, now, ticks>>

(***************************************************************************)
(* Transcript Reader (tmux_scanner.rs).  A transcript file is its          *)
(* modification time and its lines; a line is the JSON value it parses to  *)
(* (or parses = FALSE), reduced to the members the reader looks at:        *)
(*   type, isMeta, message.role, message.content, and the three timestamp  *)
(*   members.  content is [kind |-> "none"], [kind |-> "string", text],    *)
(*   or [kind |-> "array", blocks]; a block has type, text, name, command  *)
(*   (input.command).  A timestamp member is None (absent or not a string) *)
(*   or Some([ok, at]): ok tells whether the string parses as a DateTime.  *)
(***************************************************************************)
Contains(s, sub) ==
    \E i \in 1..(Len(s) - Len(sub) + 1) : SubSeq(s, i, i + Len(sub) - 1) = sub

ReadLastLines(lines, n) ==
    IF Len(lines) > n THEN SubSeq(lines, Len(lines) - n + 1, Len(lines)) ELSE lines

IsConversationMessage(parsed) ==
    LET msg_type == parsed.type
        content == parsed.content
        bookkeeping ==
            /\ msg_type = "user"
            /\ \/ /\ content.kind = "string"
                  /\ \/ StartsWith(content.text, "<local-command-caveat>")
                     \/ StartsWith(content.text, "<bash-input>")
                     \/ StartsWith(content.text, "<bash-stdout>")
                     \/ StartsWith(content.text, "<bash-stderr>")
                     \/ content.text = "[Request interrupted by user]"
               \/ /\ content.kind = "array"
                  /\ \E i \in 1..Len(content.blocks) :
                        /\ content.blocks[i].type = "text"
                        /\ Contains(content.blocks[i].text, "[Request interrupted by user]")
    IN  /\ msg_type \notin {"progress", "system", "file-history-snapshot", "summary"}
        /\ ~parsed.isMeta
        /\ ~bookkeeping
        /\ <<msg_type, parsed.role>> \in {<<"user", "user">>, <<"assistant", "assistant">>}

ParsedTime(member) ==
    IF IsSome(member) /\ Unwrap(member).ok THEN Some(Unwrap(member).at) ELSE None

ExtractMessageTimestamp(parsed) ==
    IF IsSome(ParsedTime(parsed.timestamp)) THEN ParsedTime(parsed.timestamp)
    ELSE IF IsSome(ParsedTime(parsed.message_timestamp)) THEN ParsedTime(parsed.message_timestamp)
    ELSE ParsedTime(parsed.data_message_timestamp)

\* The loops at tmux_scanner.rs 250-259, 485-491 and 522-528: walking the
\* lines from the end, the first line that carries a timestamp supplies it.
RECURSIVE LastTimestamp(_, _)
LastTimestamp(lines, i) ==
    IF i = 0 THEN None
    ELSE IF lines[i].parses /\ IsSome(ExtractMessageTimestamp(lines[i]))
    THEN ExtractMessageTimestamp(lines[i])
    ELSE LastTimestamp(lines, i - 1)

ConversationState(state, pending_action, last_message_time) ==
    [state |-> state, pending_action |-> pending_action,
     last_message_time |-> last_message_time]

BlockTypes(blocks) == {blocks[i].type : i \in 1..Len(blocks)}

FirstToolUse(blocks) ==
    blocks[CHOOSE i \in 1..Len(blocks) :
              /\ blocks[i].type = "tool_use"
              /\ \A j \in 1..(i - 1) : blocks[j].type # "tool_use"]

LastToolUse(blocks) ==
    blocks[CHOOSE i \in 1..Len(blocks) :
              /\ blocks[i].type = "tool_use"
              /\ \A j \in (i + 1)..Len(blocks) : blocks[j].type # "tool_use"]

\* A reader that takes no user turn for a tool-result continuation.
HasToolResultNever(content) == FALSE

\* tmux_scanner.rs 279-283
HasToolResult(content) ==
    content.kind = "array" /\ "tool_result" \in BlockTypes(content.blocks)

\* A reader that does not know a turn of thinking blocks.
OnlyThinkingNever(content) == FALSE

\* tmux_scanner.rs 389: reached when the turn has no tool-use and no text block.
OnlyThinking(content) ==
    content.kind = "array" /\ "thinking" \in BlockTypes(content.blocks)

\* A reader that reports Processing whenever it finds no turn.
NoTurnStateProcessing(file_age_secs, latest_timestamp) ==
    ConversationState("Processing", None, latest_timestamp)

\* tmux_scanner.rs 416-435: no real conversation message in the window.
NoTurnState(file_age_secs, latest_timestamp) ==
    IF file_age_secs > STALE_INPUT_SECS
    THEN ConversationState("AwaitingInput", Some(InputAction), latest_timestamp)
    ELSE ConversationState("Processing", None, latest_timestamp)

\* The match on one real conversation message (tmux_scanner.rs 272-413):
\* Some(result) when an arm returns, None when the loop goes on to the line before.
TurnState(parsed, file_age_secs, latest_timestamp) ==
    LET content == parsed.content
    IN  IF parsed.type = "user"
        THEN IF HasToolResult(content)
             THEN Some(ConversationState("Processing", None, latest_timestamp))
             ELSE IF file_age_secs > STALE_INPUT_SECS
             THEN Some(ConversationState("AwaitingInput", Some(InputAction), latest_timestamp))
             ELSE Some(ConversationState("Processing", None, latest_timestamp))
        ELSE IF content.kind = "array" /\ "tool_use" \in BlockTypes(content.blocks)
        THEN IF file_age_secs > STALE_TOOL_SECS
             THEN Some(ConversationState("AwaitingPermission",
                        Some(PermissionAction(LastToolUse(content.blocks).name,
                                              LastToolUse(content.blocks).command)),
                        latest_timestamp))
             ELSE Some(ConversationState("Processing", None, latest_timestamp))
        ELSE IF content.kind = "array" /\ "text" \in BlockTypes(content.blocks)
        THEN Some(ConversationState("AwaitingInput", Some(InputAction), latest_timestamp))
        ELSE IF OnlyThinking(content)
        THEN Some(ConversationState("Processing", None, latest_timestamp))
        ELSE IF content.kind = "string"
        THEN Some(ConversationState("AwaitingInput", Some(InputAction), latest_timestamp))
        ELSE None

\* A reader that looks at the last line of the window only.
WalkBackLastLine(lines, i, file_age_secs, latest_timestamp) ==
    IF i > 0 /\ lines[i].parses /\ IsConversationMessage(lines[i])
       /\ IsSome(TurnState(lines[i], file_age_secs, latest_timestamp))
    THEN Unwrap(TurnState(lines[i], file_age_secs, latest_timestamp))
    ELSE NoTurnState(file_age_secs, latest_timestamp)

RECURSIVE WalkBack(_, _, _, _)
WalkBack(lines, i, file_age_secs, latest_timestamp) ==
    IF i = 0
    THEN NoTurnState(file_age_secs, latest_timestamp)
    ELSE IF lines[i].parses /\ IsConversationMessage(lines[i])
            /\ IsSome(TurnState(lines[i], file_age_secs, latest_timestamp))
    THEN Unwrap(TurnState(lines[i], file_age_secs, latest_timestamp))
    ELSE WalkBack(lines, i - 1, file_age_secs, latest_timestamp)

\* The arm at tmux_scanner.rs 321-349 panics on the command of the last
\* tool-use block of the turn the walk stops at.
TurnPanics(parsed, file_age_secs) ==
    /\ parsed.type = "assistant"
    /\ parsed.content.kind = "array"
    /\ "tool_use" \in BlockTypes(parsed.content.blocks)
    /\ file_age_secs > STALE_TOOL_SECS
    /\ IsSome(LastToolUse(parsed.content.blocks).command)
    /\ TruncatePanics(Unwrap(LastToolUse(parsed.content.blocks).command))

RECURSIVE WalkPanics(_, _, _)
WalkPanics(lines, i, file_age_secs) ==
    IF i = 0 THEN FALSE
    ELSE IF lines[i].parses /\ IsConversationMessage(lines[i])
            /\ IsSome(TurnState(lines[i], file_age_secs, None))
    THEN TurnPanics(lines[i], file_age_secs)
    ELSE WalkPanics(lines, i - 1, file_age_secs)

FileAgeSecs(mtime, clock) == IF clock >= mtime THEN (clock - mtime) \div 1000 ELSE 0

DetectStateFromJsonl(file, clock) ==
    LET last_lines == ReadLastLines(file.lines, READ_LINES)
    IN  IF last_lines = <<>>
        THEN ConversationState("Processing", None, None)
        ELSE WalkBack(last_lines, Len(last_lines), FileAgeSecs(file.mtime, clock),
                      LastTimestamp(last_lines, Len(last_lines)))

(***************************************************************************)
(* Pane Scanner (tmux_scanner.rs).                                         *)
(***************************************************************************)
IDLE_MARKER == "*"      \* stands for the idle glyph that prefixes the pane title

\* A scanner that registers a pane under its bare target.
SessionIdBare(target) == target

SessionId(target) == "tmux:" \o target

RECURSIVE TrimStart(_, _)
TrimStart(s, chars) ==
    IF Len(s) > 0 /\ SubSeq(s, 1, 1) \in chars
    THEN TrimStart(SubSeq(s, 2, Len(s)), chars)
    ELSE s

RECURSIVE FileName(_, _)
FileName(path, i) ==
    IF i = 0 THEN path
    ELSE IF SubSeq(path, i, i) = "/" THEN SubSeq(path, i + 1, Len(path))
    ELSE FileName(path, i - 1)

DeriveProjectName(pane) ==
    LET title == TrimStart(pane.pane_title, {" "})
        clean == TrimStart(TrimStart(title, {IDLE_MARKER}), {" "})
    IN  IF title # "" /\ title # "MacBookPro.localdomain"
           /\ ~Contains(title, "localhost") /\ clean # ""
        THEN clean
        ELSE IF FileName(pane.cwd, Len(pane.cwd)) # ""
        THEN FileName(pane.cwd, Len(pane.cwd))
        ELSE "claude"

\* tmux_scanner.rs 62-71: the panes find_claude_panes keeps.  (A pane whose
\* command is "node" is kept when its child process is claude; the model's
\* panes run "claude" or "zsh".)
IsClaudePane(pane) ==
    LET is_active_claude == Contains(pane.pane_command, "claude")
        has_claude_title ==
            Contains(pane.pane_title, IDLE_MARKER) \/ Contains(pane.pane_title, "Claude")
    IN  is_active_claude \/ (has_claude_title /\ ~is_active_claude /\ pane.pane_command = "zsh")

\* A scanner that never consults the transcript: shell panes are Complete and
\* every other pane is Processing.
PaneConversationStateBlind(pane, jsonl, clock) ==
    IF pane.pane_command = "zsh"
    THEN ConversationState("Complete", None, None)
    ELSE ConversationState("Processing", None, None)

\* tmux_scanner.rs 476-536: the state of one pane; jsonl is
\* find_active_jsonl's result for the pane's project directory.
PaneConversationState(pane, jsonl, clock) ==
    IF pane.pane_command = "zsh"
    THEN ConversationState("Complete", None,
            IF IsSome(jsonl)
            THEN LastTimestamp(ReadLastLines(Unwrap(jsonl).lines, READ_LINES),
                               Len(ReadLastLines(Unwrap(jsonl).lines, READ_LINES)))
            ELSE None)
    ELSE IF StartsWith(TrimStart(pane.pane_title, {" "}), IDLE_MARKER)
    THEN IF IsSome(jsonl)
         THEN DetectStateFromJsonl(Unwrap(jsonl), clock)
         ELSE ConversationState("AwaitingInput", Some(InputAction), None)
    ELSE ConversationState("Processing", None,
            IF IsSome(jsonl)
            THEN LastTimestamp(ReadLastLines(Unwrap(jsonl).lines, READ_LINES),
                               Len(ReadLastLines(Unwrap(jsonl).lines, READ_LINES)))
            ELSE None)

\* The classification panics when it calls the reader and the reader does.
PanePanics(pane, jsonl, clock) ==
    /\ pane.pane_command # "zsh"
    /\ StartsWith(TrimStart(pane.pane_title, {" "}), IDLE_MARKER)
    /\ IsSome(jsonl)
    /\ WalkPanics(ReadLastLines(Unwrap(jsonl).lines, READ_LINES),
                  Len(ReadLastLines(Unwrap(jsonl).lines, READ_LINES)),
                  FileAgeSecs(Unwrap(jsonl).mtime, clock))

\* A mark that protects for ever.
HookProtectedForever(timestamps, sid, clock) == sid \in DOMAIN timestamps

\* tmux_scanner.rs 541-546
HookProtected(timestamps, sid, clock) ==
    /\ sid \in DOMAIN timestamps
    /\ ElapsedSecs(timestamps[sid], clock) < HOOK_GRACE_PERIOD_SECS

\* A scanner that prefers the file's modification time to the timestamp of
\* its messages.
JsonlActivityMtimeFirst(conv_state, mtime, clock) ==
    IF IsSome(mtime) THEN Unwrap(mtime)
    ELSE IF IsSome(conv_state.last_message_time) THEN Unwrap(conv_state.last_message_time)
    ELSE clock

\* tmux_scanner.rs 564-574
JsonlActivity(conv_state, mtime, clock) ==
    IF IsSome(conv_state.last_message_time) THEN Unwrap(conv_state.last_message_time)
    ELSE IF IsSome(mtime) THEN Unwrap(mtime)
    ELSE clock

\* tmux_scanner.rs 592-601
ScannedSession(cur, clock) ==
    [id |-> SessionId(cur.target),
     project_name |-> cur.project_name,
     project_path |-> Some(cur.cwd),
     state |-> cur.conv_state.state,
     tmux_target |-> Some(cur.target),
     last_activity |-> JsonlActivity(cur.conv_state, cur.mtime, clock),
     pending_action |-> cur.conv_state.pending_action,
     metrics |-> None]

\* Inputs of a scan.
Line(type, role, content, timestamp) ==
    [parses |-> TRUE, type |-> type, isMeta |-> FALSE, role |-> role,
     content |-> content, timestamp |-> timestamp,
     message_timestamp |-> None, data_message_timestamp |-> None]

Block(type, text, name, command) ==
    [type |-> type, text |-> text, name |-> name, command |-> command]

Blocks(blocks) == [kind |-> "array", blocks |-> blocks]

Text(text) == [kind |-> "string", text |-> text]

Stamp(at) == Some([ok |-> TRUE, at |-> at])

ScanWindows ==
    {<<>>,
     <<Line("assistant", "assistant",
            Blocks(<<Block("tool_use", "", Some("Bash"), Some("ls -la"))>>), Stamp(0))>>,
     <<Line("assistant", "assistant", Blocks(<<Block("text", "done", None, None)>>), None)>>,
     <<Line("user", "user", Text("fix the bug"), Stamp(0))>>}

ScanFiles == {None} \cup {Some([mtime |-> 0, lines |-> w]) : w \in ScanWindows}

\* Transcript windows for the reader: tool-use turns (one block, several
\* blocks, a block without a name, a turn followed by bookkeeping records and
\* an unparsable line), a tool-result continuation, a thinking-only turn, an
\* assistant turn with no block the reader knows, and an interrupted request.
Unparsable == [parses |-> FALSE]

Noise(type) == Line(type, "", [kind |-> "none"], None)

ToolUse(name, command) == Block("tool_use", "", name, command)

ReaderWindows ==
    {<<Line("assistant", "assistant",
            Blocks(<<Block("text", "plan", None, None), ToolUse(Some("Read"), None),
                     ToolUse(Some("Edit"), None)>>), Stamp(0))>>,
     <<Line("assistant", "assistant", Blocks(<<ToolUse(None, None)>>), None)>>,
     <<Line("user", "user", Text("go"), Stamp(0)),
       Line("assistant", "assistant", Blocks(<<ToolUse(Some("Bash"), Some("ls -la"))>>), None),
       Noise("progress"), Unparsable,
       Line("user", "user", Text("[Request interrupted by user]"), None)>>,
     <<Line("assistant", "assistant", Blocks(<<ToolUse(Some("Bash"), Some("ls -la"))>>), None),
       Line("user", "user", Blocks(<<Block("tool_result", "", None, None)>>), None)>>,
     <<Line("assistant", "assistant", Blocks(<<ToolUse(Some("Bash"), Some("ls -la"))>>), None),
       Line("assistant", "assistant", Blocks(<<Block("image", "", None, None)>>), None)>>,
     <<Line("assistant", "assistant", Blocks(<<Block("thinking", "", None, None)>>), None)>>}

\* File ages in ms around the two staleness thresholds; -1000 is a
\* modification time ahead of the clock.
FileAges == {-1000, 0, 5000, 5500, 6000, 8000, 15000, 16000}

ReaderFiles(clock) ==
    {Some([mtime |-> clock - a, lines |-> w]) :
        a \in FileAges, w \in ScanWindows \cup ReaderWindows}

\* More windows for the reader: a turn with thinking and text, a bare-string
\* assistant turn, a user turn whose free text is a block, a free-text user
\* turn followed by bookkeeping, an assistant turn with no block the reader
\* knows, windows with no real turn (bookkeeping records and an unparsable
\* line, with and without a timestamp), and a window whose records are not in
\* the order of their timestamps.
TurnWindows ==
    {<<Line("assistant", "assistant",
            Blocks(<<Block("thinking", "", None, None), Block("text", "done", None, None)>>),
            Stamp(100))>>,
     <<Line("assistant", "assistant", Text("done"), None)>>,
     <<Line("user", "user", Blocks(<<Block("text", "fix the bug", None, None)>>), None)>>,
     <<Line("user", "user", Text("fix the bug"), Stamp(200)), Noise("system"), Unparsable>>,
     <<Line("assistant", "assistant", Blocks(<<Block("image", "", None, None)>>), None)>>,
     <<Noise("progress"), Unparsable,
       Line("user", "user", Text("[Request interrupted by user]"), None)>>,
     <<Line("system", "", [kind |-> "none"], Stamp(400)), Unparsable>>,
     <<Line("user", "user", Text("fix the bug"), Stamp(350)),
       Line("assistant", "assistant", Blocks(<<Block("text", "done", None, None)>>),
            Stamp(300))>>}

\* File ages in ms around the input staleness threshold.
TurnAges == {-1000, 0, 15000, 15500, 16000}

TurnFiles(clock) ==
    {Some([mtime |-> clock - a, lines |-> w]) :
        a \in TurnAges, w \in ScanWindows \cup ReaderWindows \cup TurnWindows}

RECURSIVE Repeat(_, _)
Repeat(s, n) == IF n = 0 THEN "" ELSE s \o Repeat(s, n - 1)

\* Commands around the truncation: 6 and 100 bytes; 101 bytes of one-byte
\* characters; 101 bytes, a one-byte character and fifty of two bytes, of
\* which byte 97 starts a character; and 102 bytes, fifty-one characters of
\* two bytes, of which byte 97 continues one.
Commands ==
    {"ls -la", Repeat("a", 100), Repeat("a", 101),
     "a" \o Repeat("e" \o CONTINUATION_BYTE, 50),
     Repeat("e" \o CONTINUATION_BYTE, 51)}

CommandInputs == {[tool_name |-> Some("Bash"), command |-> Some(c)] : c \in Commands}

CommandFiles(clock) ==
    {Some([mtime |-> clock - a,
           lines |-> <<Line("assistant", "assistant",
                            Blocks(<<ToolUse(Some("Bash"), Some(c))>>), None)>>]) :
        a \in {0, 6000}, c \in Commands}

PaneTitles == {IDLE_MARKER \o " task", "task"}

PaneCommands == {"claude", "zsh"}

\* The panes find_claude_panes can return: tmux lists each pane once.
PaneLists == {<<>>, <<"a:0.0">>}

PairLists == {<<>>, <<"a:0.0">>, <<"b:0.0">>, <<"a:0.0", "b:0.0">>}

\* The scanner between cycles.  signal is the shutdown receiver's view of the
\* channel: None while the sender lives, else the position the scanner was at
\* when the sender was dropped.  failed tells whether the cycle's pane
\* enumeration failed; outbox holds the events the latest step emitted, each
\* with whether the sessions guard was alive at the emit; kept holds the
\* targets the cycle has so far written through the hook-protected branch.
SleepingScan ==
    [pc |-> "sleep", panes |-> <<>>, found_targets |-> {}, cur |-> None,
     signal |-> None, failed |-> FALSE, outbox |-> {}, kept |-> {}]

Emit(event, id, registry_locked) ==
    [event |-> event, id |-> id, registry_locked |-> registry_locked]

\* tmux_scanner.rs 463-466, 31-83: a cycle starts; the panes are enumerated
\* (an enumeration that fails yields no panes).
ScanStart(panes) ==
    /\ scan.pc = "sleep"
    /\ scan' = [scan EXCEPT !.pc = IF panes = <<>> THEN "remove" ELSE "pane",
                            !.panes = panes, !.found_targets = {},
                            !.failed = FALSE, !.outbox = {}]
    /\ UNCHANGED <<sessions, hook_timestamps, stop_timestamps,
                   notification_timestamps, hook_events, handlers, now, ticks>>

\* tmux_scanner.rs 467-546: the next pane's state is computed and hook_protected
\* is read under hook_timestamps.read().  The pane is one that
\* find_claude_panes keeps.
ScanPane(cwd, pane_title, pane_command, jsonl) ==
    /\ scan.pc = "pane"
    /\ LET pane == [target |-> Head(scan.panes), cwd |-> cwd,
                    pane_title |-> pane_title, pane_command |-> pane_command]
       IN  /\ IsClaudePane(pane)
           /\ scan' =
                 IF PanePanics(pane, jsonl, now)
                 THEN [scan EXCEPT !.pc = "panicked", !.outbox = {}]
                 ELSE [scan EXCEPT
                    !.pc = "write",
                    !.outbox = {},
                    !.found_targets = @ \cup {pane.target},
                    !.cur = Some([target |-> pane.target, cwd |-> cwd,
                               conv_state |-> PaneConversationState(pane, jsonl, now),
                               project_name |-> DeriveProjectName(pane),
                               mtime |-> IF jsonl = None THEN None
                                         ELSE Some(Unwrap(jsonl).mtime),
                               hook_protected |->
                                  HookProtected(hook_timestamps, SessionId(pane.target), now)])]
    /\ UNCHANGED <<sessions, hook_timestamps, stop_timestamps,
                   notification_timestamps, hook_events, handlers, now, ticks>>

\* A scanner that announces every unprotected write.
WriteEventsAlways(ss, cur) ==
    LET sid == SessionId(cur.target)
    IN  IF cur.hook_protected /\ sid \in DOMAIN ss THEN {}
        ELSE {Emit("session-update", sid, FALSE)}

\* tmux_scanner.rs 576-590, 610-614: the session-update event of a write, sent
\* after drop(sessions) when the session is new or its state changed.
WriteEvents(ss, cur) ==
    LET sid == SessionId(cur.target)
    IN  IF cur.hook_protected /\ sid \in DOMAIN ss THEN {}
        ELSE IF sid \in DOMAIN ss /\ ss[sid].state = cur.conv_state.state THEN {}
        ELSE {Emit("session-update", sid, FALSE)}

\* A protected branch that takes the computed state as well.
KeepHookStateLost(session, cur) ==
    [session EXCEPT !.project_path = Some(cur.cwd),
                    !.tmux_target = Some(cur.target),
                    !.state = cur.conv_state.state]

\* tmux_scanner.rs 551-557: what the hook-protected branch writes.
KeepHookState(session, cur) ==
    [session EXCEPT !.project_path = Some(cur.cwd),
                    !.tmux_target = Some(cur.target)]

\* tmux_scanner.rs 548-616: under sessions.write(), a protected registered
\* session gets only its path and target; otherwise the record is replaced.
ScanWrite ==
    /\ scan.pc = "write"
    /\ LET cur == Unwrap(scan.cur)
           sid == SessionId(cur.target)
       IN  sessions' =
              IF cur.hook_protected /\ sid \in DOMAIN sessions
              THEN [sessions EXCEPT ![sid] = KeepHookState(sessions[sid], cur)]
              ELSE MapInsert(sessions, sid, ScannedSession(cur, now))
    /\ scan' = [scan EXCEPT
          !.pc = IF Len(scan.panes) > 1 THEN "pane" ELSE "remove",
          !.panes = Tail(scan.panes),
          !.cur = None,
          !.kept = IF /\ Unwrap(scan.cur).hook_protected
                      /\ SessionId(Unwrap(scan.cur).target) \in DOMAIN sessions
                   THEN @ \cup {Unwrap(scan.cur).target}
                   ELSE @,
          !.outbox = WriteEvents(sessions, Unwrap(scan.cur))]
    /\ UNCHANGED <<hook_timestamps, stop_timestamps, notification_timestamps,
                   hook_events, handlers, now, ticks>>

\* A removal pass that forgets which targets the cycle enumerated.
VanishedAll(ss, found_targets) ==
    {id \in DOMAIN ss : StartsWith(id, "tmux:")}

\* tmux_scanner.rs 619-629: the tmux sessions whose pane was not enumerated.
Vanished(ss, found_targets) ==
    {id \in DOMAIN ss :
        /\ StartsWith(id, "tmux:")
        /\ \A t \in found_targets : id # SessionId(t)}

\* A select in which the timer can win although the sender is already dropped.
SelectEntryTimerFirst(signal) == "sleep"

\* tmux_scanner.rs 643-651: the select the loop enters after a cycle.  With the
\* sender already dropped shutdown.changed() is ready at the first poll and
\* the three-second sleep, just created, is not.
SelectEntry(signal) == IF IsSome(signal) THEN "exit" ELSE "sleep"

\* tmux_scanner.rs 618-632: sessions whose pane was not enumerated are
\* removed, and each removal is announced, under the guard taken at 618 and
\* held to the end of scan_tmux.  tmux_scanner.rs 643-651: the loop then
\* enters its select.
ScanRemove ==
    /\ scan.pc = "remove"
    /\ sessions' =
          [k \in DOMAIN sessions \ Vanished(sessions, scan.found_targets) |-> sessions[k]]
    /\ scan' = [SleepingScan EXCEPT
          !.pc = SelectEntry(scan.signal),
          !.signal = scan.signal,
          !.failed = scan.failed,
          !.outbox = {Emit("session-removed", id, TRUE) :
                         id \in Vanished(sessions, scan.found_targets)}]
    /\ UNCHANGED <<hook_timestamps, stop_timestamps, notification_timestamps,
                   hook_events, handlers, now, ticks>>

\* tmux_scanner.rs 31-44: the multiplexer command errors or exits
\* unsuccessfully; find_claude_panes returns no panes and the cycle goes on.
ScanStartFailed ==
    /\ scan.pc = "sleep"
    /\ scan' = [scan EXCEPT !.pc = "remove", !.panes = <<>>, !.found_targets = {},
                            !.failed = TRUE, !.outbox = {}]
    /\ UNCHANGED <<sessions, hook_timestamps, stop_timestamps,
                   notification_timestamps, hook_events, handlers, now, ticks>>

\* lib.rs 1495-1503: at RunEvent::Exit the shutdown sender is taken out of
\* its handle and dropped.
Shutdown ==
    /\ scan.signal = None
    /\ scan.pc # "stopped"
    /\ scan' = [scan EXCEPT !.signal = Some(scan.pc)]
    /\ UNCHANGED <<sessions, hook_timestamps, stop_timestamps,
                   notification_timestamps, hook_events, handlers, now, ticks>>

\* tmux_scanner.rs 645-650: shutdown.changed() completes in the select and the
\* loop breaks.
ScanStop ==
    /\ scan.pc \in {"sleep", "exit"}
    /\ IsSome(scan.signal)
    /\ scan' = [scan EXCEPT !.pc = "stopped"]
    /\ UNCHANGED <<sessions, hook_timestamps, stop_timestamps,
                   notification_timestamps, hook_events, handlers, now, ticks>>

\* lib.rs 489-492: the remove_session command.
RemoveSession(session_id) ==
    /\ session_id \in DOMAIN sessions
    /\ sessions' = MapRemove(sessions, session_id)
    /\ UNCHANGED <<hook_timestamps, stop_timestamps, notification_timestamps,
                   hook_events, handlers, scan, now, ticks>>

\* Time passes.
\* lib.rs 1383-1391: the task spawned for a connection has returned and the
\* accept loop spawns handle_hook_request for the next connection.
HookFinish(h) ==
    /\ handlers[h].pc = "done"
    /\ handlers[h].served < MaxRequests
    /\ handlers' = [handlers EXCEPT ![h] = [IdleHandler EXCEPT !.served = handlers[h].served + 1]]
    /\ UNCHANGED <<sessions, hook_timestamps, stop_timestamps,
                   notification_timestamps, hook_events, scan, now, ticks>>

Tick(d) ==
    /\ ticks < MaxTicks
    /\ now' = now + d
    /\ ticks' = ticks + 1
    /\ UNCHANGED <<sessions, hook_timestamps, stop_timestamps,
                   notification_timestamps, hook_events, handlers, scan>>

(***************************************************************************)
(* The system: AppState::new, then the tasks of run().                     *)
(***************************************************************************)
Init ==
    /\ sessions = EmptyMap
    /\ hook_timestamps = EmptyMap
    /\ stop_timestamps = EmptyMap
    /\ notification_timestamps = EmptyMap
    /\ hook_events = <<>>
    /\ handlers = [h \in Handlers |-> IdleHandler]
    /\ scan = SleepingScan
    /\ now = 0
    /\ ticks = 0

(***************************************************************************)
(* Spec: the whole system around one pane and one hook request, every      *)
(* input drawn from its full set.                                          *)
(***************************************************************************)
Next ==
    \/ \E hook_type \in HookTypes, cwd \in HookCwds,
          skip_permissions \in BOOLEAN, notifications_enabled \in BOOLEAN :
          HookReceive(1, hook_type, cwd, skip_permissions, notifications_enabled)
    \/ \E h \in Handlers, notifications_enabled \in BOOLEAN :
          HookMatch(h, notifications_enabled)
    \/ \E h \in Handlers : HookSkipCheck(h)
    \/ \E h \in Handlers, input \in ToolInputs : HookWrite(h, input)
    \/ \E h \in Handlers : HookMarkHook(h)
    \/ \E h \in Handlers : HookMarkStop(h)
    \/ \E h \in Handlers, notifications_enabled \in BOOLEAN :
          HookDebounce(h, notifications_enabled)
    \/ \E panes \in PaneLists : ScanStart(panes)
    \/ \E cwd \in PaneCwds, pane_title \in PaneTitles, pane_command \in PaneCommands,
          jsonl \in ScanFiles : ScanPane(cwd, pane_title, pane_command, jsonl)
    \/ ScanWrite
    \/ ScanRemove
    \/ \E session_id \in {SessionId(t) : t \in Targets} : RemoveSession(session_id)
    \/ \E d \in TickSteps : Tick(d)

Spec == Init /\ [][Next]_vars

(***************************************************************************)
(* SpecTwo: two hook requests served concurrently with each other and with *)
(* the scanner, for one agent pane in /p.  The requests are Stop and       *)
(* Notification events from /p or /p/s; the pane stays enumerated.         *)
(***************************************************************************)
NextTwo ==
    \/ \E h \in 1..RaceHandlers, hook_type \in {"Stop", "Notification"},
          cwd \in {"/p", "/p/s"} :
          HookReceive(h, hook_type, cwd, FALSE, TRUE)
    \/ \E h \in Handlers : HookMatch(h, TRUE)
    \/ \E h \in Handlers : HookSkipCheck(h)
    \/ \E h \in Handlers : HookWrite(h, [tool_name |-> None, command |-> None])
    \/ \E h \in Handlers : HookMarkHook(h)
    \/ \E h \in Handlers : HookMarkStop(h)
    \/ \E h \in Handlers : HookDebounce(h, TRUE)
    \/ ScanStart(<<"a:0.0">>)
    \/ ScanPane("/p", "task", "claude", None)
    \/ ScanWrite
    \/ ScanRemove
    \/ \E d \in TickSteps : Tick(d)

SpecTwo == Init /\ [][NextTwo]_vars

(***************************************************************************)
(* SpecNotify: up to MaxHandlers hook requests, all for the one agent pane *)
(* in /p and all of types that carry a notification message, served        *)
(* concurrently with notifications enabled; the clock moves in half        *)
(* seconds.                                                                *)
(***************************************************************************)
NextNotify ==
    \/ \E h \in Handlers, hook_type \in {"PermissionRequest", "Stop"} :
          HookReceive(h, hook_type, "/p", FALSE, TRUE)
    \/ \E h \in Handlers : HookSkipCheck(h)
    \/ \E h \in Handlers, input \in ToolInputs : HookWrite(h, input)
    \/ \E h \in Handlers : HookMarkHook(h)
    \/ \E h \in Handlers : HookMarkStop(h)
    \/ \E h \in Handlers : HookDebounce(h, TRUE)
    \/ ScanStart(<<"a:0.0">>)
    \/ ScanPane("/p", "task", "claude", None)
    \/ ScanWrite
    \/ ScanRemove
    \/ Tick(500)

SpecNotify == Init /\ [][NextNotify]_vars

(***************************************************************************)
(* SpecPair: two panes, in directories that may contain one another, and   *)
(* one hook request.                                                       *)
(***************************************************************************)
NextPair ==
    \/ \E hook_type \in {"Stop", "Notification"}, cwd \in HookCwds :
          HookReceive(1, hook_type, cwd, FALSE, TRUE)
    \/ \E h \in Handlers : HookMatch(h, TRUE)
    \/ \E h \in Handlers : HookSkipCheck(h)
    \/ \E h \in Handlers : HookWrite(h, [tool_name |-> None, command |-> None])
    \/ \E h \in Handlers : HookMarkHook(h)
    \/ \E h \in Handlers : HookMarkStop(h)
    \/ \E h \in Handlers : HookDebounce(h, TRUE)
    \/ \E panes \in PairLists : ScanStart(panes)
    \/ \E cwd \in HookCwds, pane_command \in PaneCommands :
          ScanPane(cwd, IDLE_MARKER \o " task", pane_command, None)
    \/ ScanWrite
    \/ ScanRemove
    \/ \E session_id \in {SessionId(t) : t \in Targets} : RemoveSession(session_id)

SpecPair == Init /\ [][NextPair]_vars

(***************************************************************************)
(* The decision log: one connection slot serving request after request,   *)
(* each a PermissionRequest under skip_permissions (logged and answered   *)
(* in one step), with the clock advancing between them.                   *)
(***************************************************************************)
NextLog ==
    \/ HookReceive(1, "PermissionRequest", "/p", TRUE, TRUE)
    \/ HookFinish(1)
    \/ Tick(500)

SpecLog == Init /\ [][NextLog]_vars

(***************************************************************************)
(* SpecCycle: the scanner loop from start to shutdown, over none, one or   *)
(* two panes or a failed enumeration, beside one Stop request.  The        *)
(* scanner's task is scheduled by the runtime and scan_tmux is synchronous *)
(* code, so a step of the loop that can be taken is eventually taken.      *)
(***************************************************************************)
CycleLists == PaneLists \cup {<<"a:0.0", "b:0.0">>}

ScannerStep ==
    \/ ScanPane("/p", "task", "claude", None)
    \/ ScanWrite
    \/ ScanRemove
    \/ ScanStop

NextCycle ==
    \/ HookReceive(1, "Stop", "/p", FALSE, TRUE)
    \/ HookSkipCheck(1)
    \/ HookWrite(1, [tool_name |-> None, command |-> None])
    \/ HookMarkHook(1)
    \/ HookMarkStop(1)
    \/ HookDebounce(1, TRUE)
    \/ \E panes \in CycleLists : ScanStart(panes)
    \/ ScanStartFailed
    \/ ScannerStep
    \/ Shutdown

SpecCycle == Init /\ [][NextCycle]_vars /\ WF_vars(ScannerStep)

(***************************************************************************)
(* SpecVanish: a pane that comes and goes between cycles, beside two Stop  *)
(* requests for its session, with the clock advancing in half seconds.     *)
(***************************************************************************)
NextVanish ==
    \/ \E h \in 1..RaceHandlers : HookReceive(h, "Stop", "/p", FALSE, TRUE)
    \/ \E h \in Handlers : HookSkipCheck(h)
    \/ \E h \in Handlers : HookWrite(h, [tool_name |-> None, command |-> None])
    \/ \E h \in Handlers : HookMarkHook(h)
    \/ \E h \in Handlers : HookMarkStop(h)
    \/ \E h \in Handlers : HookDebounce(h, TRUE)
    \/ \E panes \in PaneLists : ScanStart(panes)
    \/ ScanPane("/p", "task", "claude", None)
    \/ ScanWrite
    \/ ScanRemove
    \/ Tick(500)

SpecVanish == Init /\ [][NextVanish]_vars

(***************************************************************************)
(* SpecScan: the scanner over one pane in /p with transcripts of every age *)
(* and shape of ReaderFiles, and one Stop request for the pane's session,  *)
(* all within one instant of the clock.                                    *)
(***************************************************************************)
NextScan ==
    \/ HookReceive(1, "Stop", "/p", FALSE, TRUE)
    \/ \E h \in Handlers : HookSkipCheck(h)
    \/ \E h \in Handlers : HookWrite(h, [tool_name |-> None, command |-> None])
    \/ \E h \in Handlers : HookMarkHook(h)
    \/ \E h \in Handlers : HookMarkStop(h)
    \/ \E h \in Handlers : HookDebounce(h, TRUE)
    \/ \E panes \in PaneLists : ScanStart(panes)
    \/ \E pane_title \in PaneTitles, pane_command \in PaneCommands,
          jsonl \in {None} \cup ReaderFiles(now) :
          ScanPane("/p", pane_title, pane_command, jsonl)
    \/ ScanWrite
    \/ ScanRemove

SpecScan == Init /\ [][NextScan]_vars

\* The scanner alone, over every pane and transcript of the reader's inputs,
\* with the clock advancing between its steps.
NextRead ==
    \/ \E panes \in PaneLists : ScanStart(panes)
    \/ \E pane_title \in PaneTitles, pane_command \in PaneCommands,
          jsonl \in {None} \cup TurnFiles(now) :
          ScanPane("/p", pane_title, pane_command, jsonl)
    \/ ScanWrite
    \/ ScanRemove
    \/ Tick(500)

SpecRead == Init /\ [][NextRead]_vars

\* Permission requests and transcripts whose commands are around the
\* truncation length.
NextCommand ==
    \/ \E h \in 1..RaceHandlers : HookReceive(h, "PermissionRequest", "/p", FALSE, TRUE)
    \/ \E h \in Handlers : HookSkipCheck(h)
    \/ \E h \in Handlers, input \in CommandInputs : HookWrite(h, input)
    \/ \E h \in Handlers : HookMarkHook(h)
    \/ \E h \in Handlers : HookDebounce(h, TRUE)
    \/ \E panes \in PaneLists : ScanStart(panes)
    \/ \E jsonl \in CommandFiles(now) : ScanPane("/p", IDLE_MARKER \o " task", "claude", jsonl)
    \/ ScanWrite
    \/ ScanRemove

SpecCommand == Init /\ [][NextCommand]_vars

\* One Stop event for a pane that every cycle enumerates running the agent.
\* The loop of start_tmux_scanner runs a cycle every three seconds and
\* nothing in a cycle waits for anything but a lock, so the scanner's steps
\* are taken sooner or later.
ScannerLoop ==
    \/ ScanStart(<<"a:0.0">>)
    \/ ScanPane("/p", "task", "claude", None)
    \/ ScanWrite
    \/ ScanRemove

NextExpiry ==
    \/ HookReceive(1, "Stop", "/p", FALSE, TRUE)
    \/ HookSkipCheck(1)
    \/ HookWrite(1, [tool_name |-> None, command |-> None])
    \/ HookMarkHook(1)
    \/ HookMarkStop(1)
    \/ HookDebounce(1, TRUE)
    \/ ScannerLoop
    \/ \E d \in TickSteps : Tick(d)

SpecExpiry == Init /\ [][NextExpiry]_vars /\ WF_vars(ScannerLoop)

\* Two events for one session, of a type that notifies and of one that does
\* not, with notifications enabled or disabled in the settings.
NextSilent ==
    \/ \E h \in 1..RaceHandlers, hook_type \in {"PostToolUse", "PermissionRequest"} :
          HookReceive(h, hook_type, "/p", FALSE, TRUE)
    \/ \E h \in Handlers : HookSkipCheck(h)
    \/ \E h \in Handlers : HookWrite(h, [tool_name |-> None, command |-> None])
    \/ \E h \in Handlers : HookMarkHook(h)
    \/ \E h \in Handlers, notifications_enabled \in BOOLEAN :
          HookDebounce(h, notifications_enabled)
    \/ ScanStart(<<"a:0.0">>)
    \/ ScanPane("/p", "task", "claude", None)
    \/ ScanWrite
    \/ ScanRemove
    \/ Tick(500)

SpecSilent == Init /\ [][NextSilent]_vars

\* Events of every type for a directory in which no session is registered.
NextUnmatched ==
    \/ \E h \in Handlers, hook_type \in HookTypes, notifications_enabled \in BOOLEAN :
          HookReceive(h, hook_type, "/q", FALSE, notifications_enabled)
    \/ \E h \in Handlers, notifications_enabled \in BOOLEAN :
          HookMatch(h, notifications_enabled)
    \/ \E panes \in PaneLists : ScanStart(panes)
    \/ ScanPane("/p", "task", "claude", None)
    \/ ScanWrite
    \/ ScanRemove
    \/ Tick(500)

SpecUnmatched == Init /\ [][NextUnmatched]_vars

(***************************************************************************)
(* Properties.                                                             *)
(***************************************************************************)
HandlerSteps(h) == handlers'[h] # handlers[h]

ScannerWrites == scan.pc = "write" /\ scan'.pc # "write"

\* C1 (Spec): a scanner write made while a registered session is
\* hook-protected (its hook_timestamps entry is less than
\* HOOK_GRACE_PERIOD_SECS old) leaves the session's state and pending_action
\* as they were.
C1_GraceInvariant ==
    [][\A sid \in DOMAIN sessions :
          (/\ ScannerWrites
           /\ HookProtected(hook_timestamps, sid, now)
           /\ sid \in DOMAIN sessions')
          => /\ sessions'[sid].state = sessions[sid].state
             /\ sessions'[sid].pending_action = sessions[sid].pending_action]_vars

\* C2 (Spec): every registered session has a state of the SessionState enum
\* and has a pending_action exactly when its state is AwaitingInput or
\* AwaitingPermission.
C2_PendingIffAwaiting ==
    \A sid \in DOMAIN sessions :
        /\ sessions[sid].state \in
              {"Spawning", "Processing", "AwaitingInput", "AwaitingPermission",
               "Complete", "Error"}
        /\ IsSome(sessions[sid].pending_action)
              <=> sessions[sid].state \in {"AwaitingInput", "AwaitingPermission"}

\* The sessions a cwd resolves to: path equal to the cwd, or one a prefix of
\* the other.
Resolves(cwd, sid) ==
    /\ sid \in DOMAIN sessions
    /\ IsSome(sessions[sid].project_path)
    /\ LET path == Unwrap(sessions[sid].project_path)
       IN  cwd = path \/ StartsWith(cwd, path) \/ StartsWith(path, cwd)

Arrives(h) == handlers[h].pc = "idle" /\ handlers'[h].pc # "idle"

StopFiredEntry(h) ==
    HookEvent(now, "Notification", handlers'[h].cwd, None, "n/a", TRUE,
              Some("Stop fired recently"))

\* C3 (SpecTwo): a Notification that arrives for a cwd resolving (by equality
\* or by prefix, either way) to a session whose Stop was recorded less than
\* HOOK_GRACE_PERIOD_SECS ago is answered "skipped:stop_recently" at once, with
\* one skipped log entry giving the stop-fired-recently reason and no registry
\* write; one that arrives when no such Stop is on record is not answered so.
C3_StopSuppression ==
    [][\A h \in Handlers :
          (Arrives(h) /\ handlers'[h].hook_type = "Notification")
          => IF \E sid \in DOMAIN sessions :
                   /\ Resolves(handlers'[h].cwd, sid)
                   /\ RecentlyStopped(stop_timestamps, sid, now)
             THEN /\ handlers'[h].response = Some("skipped:stop_recently")
                  /\ handlers'[h].logged = <<StopFiredEntry(h)>>
                  /\ hook_events' = Append(hook_events, StopFiredEntry(h))
                  /\ sessions' = sessions
             ELSE handlers'[h].response # Some("skipped:stop_recently")]_vars

WritesRecord(h) == handlers[h].pc = "write" /\ handlers'[h].pc # "write"

\* C4 (SpecTwo): the write step of a Notification handler whose matched
\* session is Complete at that moment leaves the session Complete.
C4_NotificationKeepsComplete ==
    [][\A h \in Handlers :
          (/\ WritesRecord(h)
           /\ handlers[h].hook_type = "Notification"
           /\ Unwrap(handlers[h].session_id) \in DOMAIN sessions
           /\ sessions[Unwrap(handlers[h].session_id)].state = "Complete")
          => sessions'[Unwrap(handlers[h].session_id)].state = "Complete"]_vars

\* C5 (SpecTwo): in every one-at-a-time ordering in which a Stop handler and
\* a Notification handler have both written the same session, the
\* Notification ran first (after the Stop it is skipped); the Stop's marks
\* then protect the record from every scan step for the grace period.  So
\* when both have finished and written, less than HOOK_GRACE_PERIOD_SECS
\* into the run, the session is Complete and carries the Stop's marks.
C5_SerialOutcome ==
    \A hs, hn \in Handlers :
        (/\ handlers[hs].pc = "done" /\ handlers[hs].hook_type = "Stop"
         /\ handlers[hn].pc = "done" /\ handlers[hn].hook_type = "Notification"
         /\ handlers[hs].wrote /\ handlers[hn].wrote
         /\ handlers[hs].session_id = handlers[hn].session_id
         /\ ElapsedSecs(0, now) < HOOK_GRACE_PERIOD_SECS)
        => LET sid == Unwrap(handlers[hs].session_id)
           IN  /\ sid \in DOMAIN sessions
               /\ sessions[sid].state = "Complete"
               /\ RecentlyStopped(stop_timestamps, sid, now)
               /\ HookProtected(hook_timestamps, sid, now)

\* C7 (SpecTwo): when a hook event has been handled and written, and the same
\* event (type and cwd, same session) is handled again within
\* DEBOUNCE_MILLIS while the session is at the event's target state, the
\* second handler's write step is a no-op: the registry is unchanged and the
\* handler goes on without having written, so no mark and no change event
\* follow.
C7_SecondDeliveryNoOp ==
    [][\A h1, h2 \in Handlers :
          (/\ h1 # h2
           /\ handlers[h1].pc = "done" /\ handlers[h1].wrote
           /\ handlers[h2].hook_type = handlers[h1].hook_type
           /\ handlers[h2].cwd = handlers[h1].cwd
           /\ handlers[h2].session_id = handlers[h1].session_id
           /\ WritesRecord(h2)
           /\ ElapsedMillis(Unwrap(handlers[h1].asked), now) < DEBOUNCE_MILLIS
           /\ Unwrap(handlers[h2].session_id) \in DOMAIN sessions
           /\ sessions[Unwrap(handlers[h2].session_id)].state = HandlerNewState(h2))
          => /\ sessions' = sessions
             /\ ~handlers'[h2].wrote
             /\ handlers'[h2].pc \notin {"mark_hook", "mark_stop"}]_vars

SameSession(h1, h2) ==
    /\ h1 # h2
    /\ IsSome(handlers[h1].asked) /\ IsSome(handlers[h2].asked)
    /\ IsSome(handlers[h1].session_id)
    /\ handlers[h1].session_id = handlers[h2].session_id

Apart(h1, h2) ==
    IF Unwrap(handlers[h1].asked) >= Unwrap(handlers[h2].asked)
    THEN Unwrap(handlers[h1].asked) - Unwrap(handlers[h2].asked)
    ELSE Unwrap(handlers[h2].asked) - Unwrap(handlers[h1].asked)

DeliveredNearby(h1, h2) ==
    \E h3 \in Handlers \ {h1, h2} :
        /\ SameSession(h1, h3)
        /\ handlers[h3].delivered
        /\ Apart(h1, h3) < DEBOUNCE_MILLIS \/ Apart(h2, h3) < DEBOUNCE_MILLIS

PathEquals(sid, cwd) == sessions[sid].project_path = Some(cwd)

PathContains(sid, cwd) ==
    /\ IsSome(sessions[sid].project_path)
    /\ \/ StartsWith(cwd, Unwrap(sessions[sid].project_path))
       \/ StartsWith(Unwrap(sessions[sid].project_path), cwd)

\* The step in which handler h looks the session up.
LooksUp(h) ==
    /\ handlers[h].pc \in {"idle", "match"}
    /\ \/ handlers'[h].pc = "skip_check"
       \/ handlers'[h].response = Some("no_match")

\* C8 (SpecPair): the lookup of a hook's cwd among the registered sessions
\* yields a session whose path equals the cwd when there is one; otherwise a
\* session whose path is a prefix of the cwd or has the cwd as a prefix when
\* there is one; otherwise no session (the request is answered "no_match").
C8_Matching ==
    [][\A h \in Handlers :
          LooksUp(h)
          => LET cwd == handlers'[h].cwd
                 found == handlers'[h].session_id
             IN  IF \E sid \in DOMAIN sessions : PathEquals(sid, cwd)
                 THEN /\ IsSome(found)
                      /\ Unwrap(found) \in DOMAIN sessions
                      /\ PathEquals(Unwrap(found), cwd)
                 ELSE IF \E sid \in DOMAIN sessions : PathContains(sid, cwd)
                 THEN /\ IsSome(found)
                      /\ Unwrap(found) \in DOMAIN sessions
                      /\ PathContains(Unwrap(found), cwd)
                 ELSE /\ found = None
                      /\ handlers'[h].response = Some("no_match")]_vars

\* A request from /p/s has been matched to the session at /p/s while a
\* session at /p, which contains it, is registered too.
C8_Witness ==
    \E h \in Handlers, sid, other \in DOMAIN sessions :
        /\ handlers[h].pc = "skip_check"
        /\ handlers[h].cwd = "/p/s"
        /\ handlers[h].session_id = Some(sid)
        /\ sessions[sid].project_path = Some("/p/s")
        /\ sessions[other].project_path = Some("/p")

\* C9 (Spec): the write step of a handler whose matched session is registered
\* sets the session's state to the table's entry for the hook type
\* (PermissionRequest AwaitingPermission, Notification AwaitingInput, Stop
\* Complete, SessionStart Processing, PostToolUse Processing); a request of
\* any other type is answered without a registry write, a timestamp mark or a
\* log entry.
C9_StateTable ==
    [][\A h \in Handlers :
          /\ (WritesRecord(h) /\ Unwrap(handlers[h].session_id) \in DOMAIN sessions)
             => /\ handlers'[h].wrote
                /\ sessions'[Unwrap(handlers[h].session_id)].state =
                      CASE handlers[h].hook_type = "PermissionRequest" -> "AwaitingPermission"
                        [] handlers[h].hook_type = "Notification" -> "AwaitingInput"
                        [] handlers[h].hook_type = "Stop" -> "Complete"
                        [] handlers[h].hook_type = "SessionStart" -> "Processing"
                        [] handlers[h].hook_type = "PostToolUse" -> "Processing"
          /\ (Arrives(h) /\ handlers'[h].hook_type \notin
                 {"PermissionRequest", "Notification", "Stop", "SessionStart", "PostToolUse"})
             => /\ handlers'[h].pc = "done"
                /\ handlers'[h].response = Some("unknown_hook")
                /\ ~handlers'[h].wrote
                /\ UNCHANGED <<sessions, hook_timestamps, stop_timestamps,
                               notification_timestamps, hook_events>>]_vars

\* A PermissionRequest handler has just written its session at time 0: the
\* session is AwaitingPermission for the request's tool.
C9_Witness ==
    \E h \in Handlers :
        /\ handlers[h].pc = "mark_hook"
        /\ handlers[h].hook_type = "PermissionRequest"
        /\ now = 0
        /\ Unwrap(handlers[h].session_id) \in DOMAIN sessions
        /\ sessions[Unwrap(handlers[h].session_id)].state = "AwaitingPermission"
        /\ sessions[Unwrap(handlers[h].session_id)].pending_action =
              Some(PermissionAction(Some("Bash"), Some("ls -la")))

AlreadyCompleteEntry(h) ==
    HookEvent(now, "Notification", handlers[h].cwd, handlers[h].session_id,
              "AwaitingInput", TRUE, Some("session already Complete"))

\* C10 (SpecTwo): the should_skip step of a Notification handler whose
\* matched session is Complete answers "matched:<id>" and is a pure skip: the
\* registry and the three timestamp tables are unchanged, the handler has
\* written nothing, emitted no change event and made no notify request, and
\* the log has grown by the handler's one entry, skipped with the
\* already-Complete reason.
C10_PureSkip ==
    [][\A h \in Handlers :
          (/\ handlers[h].pc = "skip_check" /\ HandlerSteps(h)
           /\ handlers[h].hook_type = "Notification"
           /\ Unwrap(handlers[h].session_id) \in DOMAIN sessions
           /\ sessions[Unwrap(handlers[h].session_id)].state = "Complete")
          => /\ handlers'[h].pc = "done"
             /\ handlers'[h].response = Some("matched:" \o Unwrap(handlers[h].session_id))
             /\ UNCHANGED <<sessions, hook_timestamps, stop_timestamps,
                            notification_timestamps>>
             /\ ~handlers'[h].wrote /\ ~handlers'[h].marked /\ ~handlers'[h].stopped
             /\ ~handlers'[h].emitted
             /\ handlers'[h].asked = None /\ ~handlers'[h].delivered
             /\ handlers'[h].logged = <<AlreadyCompleteEntry(h)>>
             /\ hook_events' = Append(hook_events, AlreadyCompleteEntry(h))]_vars

\* A Notification was answered "matched:<id>" by the already-Complete skip,
\* the session's Stop being HOOK_GRACE_PERIOD_SECS old or older.
C10_Witness ==
    \E h \in Handlers :
        /\ handlers[h].pc = "done"
        /\ handlers[h].hook_type = "Notification"
        /\ handlers[h].cwd = "/p"
        /\ handlers[h].response = Some("matched:tmux:a:0.0")
        /\ handlers[h].logged = <<AlreadyCompleteEntry(h)>>
        /\ "tmux:a:0.0" \in DOMAIN stop_timestamps
        /\ ~RecentlyStopped(stop_timestamps, "tmux:a:0.0", now)
        /\ "tmux:a:0.0" \in DOMAIN sessions
        /\ sessions["tmux:a:0.0"].state = "Complete"

\* The most recent real turn of a transcript window, as a set: empty when
\* the window has none.
LastRealTurn(lines) ==
    {lines[i] : i \in {k \in 1..Len(lines) :
        /\ lines[k].parses /\ IsConversationMessage(lines[k])
        /\ \A m \in (k + 1)..Len(lines) :
              ~(lines[m].parses /\ IsConversationMessage(lines[m]))}}

IsToolUseTurn(turn) ==
    /\ turn.type = "assistant"
    /\ turn.content.kind = "array"
    /\ \E i \in 1..Len(turn.content.blocks) : turn.content.blocks[i].type = "tool_use"

LastToolName(turn) ==
    LET blocks == turn.content.blocks
        last == CHOOSE i \in 1..Len(blocks) :
                   /\ blocks[i].type = "tool_use"
                   /\ \A j \in 1..Len(blocks) : blocks[j].type = "tool_use" => j <= i
    IN  blocks[last].name

\* What is inferred from a tool-use turn: awaiting permission for the turn's
\* last tool when stale, Processing when not.
ToolUseInference(turn, stale, inferred) ==
    IF stale
    THEN /\ inferred.state = "AwaitingPermission"
         /\ IsSome(inferred.pending_action)
         /\ Unwrap(inferred.pending_action).action_type = "permission"
         /\ Unwrap(inferred.pending_action).tool = LastToolName(turn)
    ELSE /\ inferred.state = "Processing"
         /\ inferred.pending_action = None

\* The scanner's write for a pane it found unprotected, or not yet
\* registered, stores the inferred state and pending action.
WritesInference ==
    (ScannerWrites /\ ~(Unwrap(scan.cur).hook_protected
                        /\ SessionId(Unwrap(scan.cur).target) \in DOMAIN sessions))
    => LET sid == SessionId(Unwrap(scan.cur).target)
       IN  /\ sid \in DOMAIN sessions'
           /\ sessions'[sid].state = Unwrap(scan.cur).conv_state.state
           /\ sessions'[sid].pending_action = Unwrap(scan.cur).conv_state.pending_action

\* C11 as stated (SpecScan): for every pane whose title starts with the idle
\* glyph and whose transcript's most recent real turn is an assistant turn
\* with a tool-use block, the scanner infers AwaitingPermission for the last
\* tool-use's name when the file is more than STALE_TOOL_SECS old and
\* Processing with no pending action otherwise, and writes that to an
\* unprotected session.
C11_IdleTitleToolUse ==
    [][/\ WritesInference
       /\ (scan.pc = "pane" /\ scan'.pc = "write")
          => \A pane_command \in PaneCommands, file \in ReaderFiles(now) :
                \A turn \in LastRealTurn(Unwrap(file).lines) :
                   (/\ IsToolUseTurn(turn)
                    /\ ScanPane("/p", IDLE_MARKER \o " task", pane_command, file))
                   => ToolUseInference(turn, now - Unwrap(file).mtime > 1000 * STALE_TOOL_SECS,
                                       Unwrap(scan'.cur).conv_state)]_vars

\* C11 (SpecScan): the same for every such pane whose foreground command is
\* not the shell, the file being stale when its age in whole seconds is more
\* than STALE_TOOL_SECS.
C11_ToolUseTurn ==
    [][/\ WritesInference
       /\ (scan.pc = "pane" /\ scan'.pc = "write")
          => \A pane_command \in PaneCommands \ {"zsh"}, file \in ReaderFiles(now) :
                \A turn \in LastRealTurn(Unwrap(file).lines) :
                   (/\ IsToolUseTurn(turn)
                    /\ ScanPane("/p", IDLE_MARKER \o " task", pane_command, file))
                   => ToolUseInference(turn,
                         now - Unwrap(file).mtime >= 1000 * (STALE_TOOL_SECS + 1),
                         Unwrap(scan'.cur).conv_state)]_vars

\* The scanner has registered the session as awaiting permission for Edit,
\* the last of the two tools of the turn.
C11_Witness ==
    /\ scan.pc = "remove"
    /\ SessionId("a:0.0") \in DOMAIN sessions
    /\ sessions[SessionId("a:0.0")].state = "AwaitingPermission"
    /\ IsSome(sessions[SessionId("a:0.0")].pending_action)
    /\ Unwrap(sessions[SessionId("a:0.0")].pending_action).tool = Some("Edit")

\* C12 (Spec): a handler that has answered has appended exactly one entry to
\* the decision log: skipped=false when it wrote the registry, skipped=true
\* with a reason of its own when it did not.
C12_OneLogEntry ==
    \A h \in Handlers :
        handlers[h].pc = "done"
        => /\ Len(handlers[h].logged) = 1
           /\ handlers[h].logged[1].skipped = ~handlers[h].wrote
           /\ handlers[h].logged[1].skipped
                 => handlers[h].logged[1].skip_reason \in
                       {Some("--dangerously-skip-permissions"), Some("Stop fired recently"),
                        Some("unknown hook"), Some("no matching session"),
                        Some("session already Complete")}

(***************************************************************************)
(* C13: the decision log never holds more than MAX_HOOK_EVENTS entries and *)
(* is always the most recent entries appended, in the order appended: it   *)
(* changes only when a handler logs an entry, which goes to the end, and   *)
(* the oldest entry leaves exactly when the log was already full.          *)
(***************************************************************************)
C13_BoundedLog ==
    [][/\ Len(hook_events') <= MAX_HOOK_EVENTS
       /\ \A h \in Handlers :
             Len(handlers'[h].logged) > Len(handlers[h].logged)
             => LET entry == handlers'[h].logged[Len(handlers'[h].logged)]
                IN  hook_events' =
                       IF Len(hook_events) < MAX_HOOK_EVENTS
                       THEN Append(hook_events, entry)
                       ELSE Append(Tail(hook_events), entry)
       /\ (\A h \in Handlers : Len(handlers'[h].logged) <= Len(handlers[h].logged))
             => hook_events' = hook_events]_vars

\* The slot is answering its 52nd request: the log holds 50 entries, the
\* entries written at time 0 are gone and the newest is the one just logged.
C13_Witness ==
    /\ handlers[1].served = MaxRequests - 1
    /\ handlers[1].pc = "done"
    /\ Len(hook_events) = MAX_HOOK_EVENTS
    /\ hook_events[1].timestamp = 500
    /\ hook_events[MAX_HOOK_EVENTS] = handlers[1].logged[1]
    /\ hook_events[MAX_HOOK_EVENTS].timestamp = 1000

ResponseBodies ==
    {"skipped:skip_permissions", "skipped:stop_recently", "unknown_hook", "no_match"}
        \cup {"matched:" \o SessionId(target) : target \in Targets}

Finishes(h) == handlers[h].pc # "done" /\ handlers'[h].pc = "done"

\* C14 (SpecTwo): every request is answered once, with one of the five
\* bodies: a PermissionRequest under skip_permissions gets
\* "skipped:skip_permissions"; a Notification arriving while a session its cwd
\* resolves to has a Stop on record less than HOOK_GRACE_PERIOD_SECS old gets
\* "skipped:stop_recently"; a type outside the table gets "unknown_hook"; a
\* recognized type whose lookup finds no session gets "no_match"; any other
\* request gets "matched:<id>" with the id of the session it matched.
C14_ResponseBody ==
    [][\A h \in Handlers :
          LET hd == handlers'[h]
          IN  /\ Arrives(h)
                 => /\ (/\ hd.hook_type = "PermissionRequest"
                        /\ HookReceive(h, hd.hook_type, hd.cwd, TRUE, TRUE))
                       => hd.response = Some("skipped:skip_permissions")
                    /\ (/\ hd.hook_type = "Notification"
                        /\ \E sid \in DOMAIN sessions :
                              /\ Resolves(hd.cwd, sid)
                              /\ RecentlyStopped(stop_timestamps, sid, now))
                       => hd.response = Some("skipped:stop_recently")
                    /\ HookNewState(hd.hook_type) = None
                       => hd.response = Some("unknown_hook")
              /\ Finishes(h)
                 => /\ IsSome(hd.response)
                    /\ Unwrap(hd.response) \in ResponseBodies
                    /\ hd.response = Some("no_match")
                       => FindCandidates(sessions, hd.cwd) = {}
                    /\ IsSome(hd.session_id)
                       => hd.response = Some("matched:" \o Unwrap(hd.session_id))
              /\ ~Finishes(h) /\ hd.pc # "idle" => hd.response = handlers[h].response]_vars

\* C15 (Spec): a session's last_activity moves to an earlier time only in a
\* step that writes the record's pending_action as well (a hook write, or a
\* scanner write outside the grace window); and a scanner write made after
\* the grace window to a session a hook has written leaves last_activity no
\* earlier than the time the hook wrote.
C15_LastActivityMonotone ==
    [][\A sid \in DOMAIN sessions \cap DOMAIN sessions' :
          /\ sessions'[sid].last_activity < sessions[sid].last_activity
             => \/ \E h \in Handlers :
                      WritesRecord(h) /\ handlers[h].session_id = Some(sid)
                \/ /\ ScannerWrites
                   /\ ~Unwrap(scan.cur).hook_protected
                   /\ SessionId(Unwrap(scan.cur).target) = sid
          /\ \A h \in Handlers :
                (/\ ScannerWrites
                 /\ SessionId(Unwrap(scan.cur).target) = sid
                 /\ handlers[h].wrote
                 /\ handlers[h].session_id = Some(sid)
                 /\ sid \in DOMAIN hook_timestamps
                 /\ ~HookProtected(hook_timestamps, sid, now))
                => sessions'[sid].last_activity >= handlers[h].logged[1].timestamp]_vars

\* C16 (Spec): a PermissionRequest that arrives with skip_permissions set is
\* answered "skipped:skip_permissions" in its first step, before any lookup:
\* the registry and the three timestamp tables are unchanged, nothing is
\* emitted and no notification is asked for, and exactly one entry with
\* skipped = TRUE goes to the decision log.  A request of any other type that
\* arrives with the flag set takes the step it takes without the flag.
C16_SkipPermissions ==
    [][\A h \in Handlers, notifications_enabled \in BOOLEAN :
          LET hd == handlers'[h]
          IN  (Arrives(h) /\ HookReceive(h, hd.hook_type, hd.cwd, TRUE, notifications_enabled))
              => IF hd.hook_type = "PermissionRequest"
                 THEN /\ UNCHANGED <<sessions, hook_timestamps, stop_timestamps,
                                     notification_timestamps>>
                      /\ hd.session_id = None
                      /\ ~hd.wrote /\ ~hd.marked /\ ~hd.stopped
                      /\ ~hd.emitted /\ ~hd.delivered /\ hd.asked = None
                      /\ Len(hd.logged) = 1
                      /\ hd.logged[1].skipped
                      /\ hd.logged[1].hook_type = "PermissionRequest"
                      /\ hook_events' = Append(hook_events, hd.logged[1])
                      /\ hd.response = Some("skipped:skip_permissions")
                      /\ hd.pc = "done"
                 ELSE HookReceive(h, hd.hook_type, hd.cwd, FALSE, notifications_enabled)]_vars

\* A PermissionRequest from /p was skipped while a session for /p was
\* registered: the lookup would have matched, and the session is untouched.
C16_Witness ==
    /\ handlers[1].pc = "done"
    /\ handlers[1].hook_type = "PermissionRequest"
    /\ handlers[1].cwd = "/p"
    /\ handlers[1].response = Some("skipped:skip_permissions")
    /\ hook_events = handlers[1].logged
    /\ "tmux:a:0.0" \in DOMAIN sessions
    /\ sessions["tmux:a:0.0"].project_path = Some("/p")
    /\ sessions["tmux:a:0.0"].state = "Processing"
    /\ hook_timestamps = EmptyMap

\* The step in which a handler makes its lookup: it leaves the arrival or the
\* lookup position and was not answered by one of the three earlier exits.
MakesLookup(h) ==
    /\ handlers[h].pc \in {"idle", "match"}
    /\ handlers'[h].pc \notin {"idle", "match"}
    /\ handlers'[h].response \notin {Some("skipped:skip_permissions"),
                                     Some("skipped:stop_recently"),
                                     Some("unknown_hook")}

\* C17 (Spec): a request of a recognized type whose lookup finds no session
\* for its cwd is answered "no_match" in that step; no session record and no
\* hook or stop timestamp changes, no session is created, and exactly one
\* entry, skipped with the reason "no matching session", goes to the log.
C17_NoMatch ==
    [][\A h \in Handlers :
          LET hd == handlers'[h]
          IN  (/\ MakesLookup(h)
               /\ IsSome(HookNewState(hd.hook_type))
               /\ FindCandidates(sessions, hd.cwd) = {})
              => /\ UNCHANGED <<sessions, hook_timestamps, stop_timestamps>>
                 /\ hd.session_id = None
                 /\ ~hd.wrote /\ ~hd.marked /\ ~hd.stopped /\ ~hd.emitted
                 /\ Len(hd.logged) = 1
                 /\ hd.logged[1].skipped
                 /\ hd.logged[1].skip_reason = Some("no matching session")
                 /\ hd.logged[1].matched_session = None
                 /\ hd.logged[1].cwd = hd.cwd
                 /\ hook_events' = Append(hook_events, hd.logged[1])
                 /\ hd.response = Some("no_match")
                 /\ hd.pc = "done"]_vars

\* A Stop from /q found no session while the session of /p was registered:
\* it was answered "no_match" and the session is as the scanner left it.
C17_Witness ==
    /\ handlers[1].pc = "done"
    /\ handlers[1].hook_type = "Stop"
    /\ handlers[1].cwd = "/q"
    /\ handlers[1].response = Some("no_match")
    /\ Len(hook_events) = 1
    /\ hook_events[1].skip_reason = Some("no matching session")
    /\ "tmux:a:0.0" \in DOMAIN sessions
    /\ sessions["tmux:a:0.0"].state = "Processing"
    /\ hook_timestamps = EmptyMap
    /\ stop_timestamps = EmptyMap

\* C18 (SpecCycle): once the shutdown sender is dropped the scanner loop
\* eventually stops.  It stops only from its select, with the cycle's panes
\* all processed and the removal pass done; a loop that entered its select
\* with the signal pending starts no cycle, and a stopped loop does nothing.
C18_ScannerShutdown ==
    /\ IsSome(scan.signal) ~> scan.pc = "stopped"
    /\ [][/\ (scan.pc # "stopped" /\ scan'.pc = "stopped")
             => /\ scan.pc \in {"sleep", "exit"}
                /\ IsSome(scan.signal)
                /\ scan.panes = <<>>
                /\ scan.cur = None
          /\ scan.pc = "exit" => scan'.pc \in {"exit", "stopped"}
          /\ scan.pc = "stopped" => scan' = scan]_vars

\* The sender was dropped while the scanner was about to write pane a:0.0:
\* the write was made, the cycle ended, and the loop has stopped.
C18_Witness ==
    /\ scan.pc = "stopped"
    /\ scan.signal = Some("write")
    /\ "tmux:a:0.0" \in DOMAIN sessions

\* C19 (SpecCycle): every event the scanner emits is emitted with no guard on
\* the session registry alive, and a handler that has emitted its event has
\* committed its registry write in an earlier step.
C19_EffectsOutsideLock ==
    /\ \A e \in scan.outbox : ~e.registry_locked
    /\ \A h \in Handlers :
          handlers[h].emitted => handlers[h].wrote /\ handlers[h].pc # "write"

\* C20 (SpecCycle): the removal pass of a cycle whose pane enumeration failed
\* changes no session, emits no event, and returns the loop to its select,
\* from which the next cycle enumerates again.
C20_EnumerationFailure ==
    [][(scan.failed /\ scan.pc = "remove" /\ scan'.pc # "remove")
       => /\ sessions' = sessions
          /\ scan'.outbox = {}
          /\ scan'.pc \in {"sleep", "exit"}]_vars

NotifyRequest(h) == handlers[h].pc = "debounce" /\ handlers'[h].pc = "done"

\* C21 (SpecNotify): a handler's notify request for a session with no mark
\* is allowed and sets the mark to the time of the request; one made less
\* than DEBOUNCE_MILLIS after the mark is dropped and leaves the mark as it
\* was; one made DEBOUNCE_MILLIS or more after the mark is allowed and moves
\* the mark, however many requests were dropped in between.
C21_SelfHealing ==
    [][\A h \in Handlers :
          NotifyRequest(h)
          => LET sid == Unwrap(handlers[h].session_id)
                 marks == notification_timestamps
             IN  IF sid \in DOMAIN marks /\ now - marks[sid] < DEBOUNCE_MILLIS
                 THEN /\ notification_timestamps' = marks
                      /\ ~handlers'[h].delivered
                 ELSE /\ notification_timestamps' = MapInsert(marks, sid, now)
                      /\ handlers'[h].delivered]_vars

\* Three requests for one session at 0, 500 and 1000 ms: delivered, dropped,
\* delivered, and the mark is at 1000.
C21_Witness ==
    /\ \A h \in Handlers : handlers[h].session_id = Some("tmux:a:0.0")
    /\ handlers[1].asked = Some(0) /\ handlers[1].delivered
    /\ handlers[2].asked = Some(500) /\ ~handlers[2].delivered
    /\ handlers[3].asked = Some(1000) /\ handlers[3].delivered
    /\ notification_timestamps["tmux:a:0.0"] = 1000

\* C22 (SpecTwo): a handler that wrote a session record has, when it
\* finishes, set the session's hook timestamp to a time not earlier than its
\* write, and has set the stop timestamp, also not earlier than the write,
\* exactly when its event is a Stop; a handler that did not write set neither.
\* The stop table changes only in the stop-mark step of a Stop handler that
\* wrote, and the hook table only in a step of a handler that wrote: no
\* step of the scanner changes either.
C22_HookMarks ==
    [][/\ \A h \in Handlers :
             handlers'[h].pc = "done"
             => IF handlers'[h].wrote
                THEN LET sid == Unwrap(handlers'[h].session_id)
                         written == handlers'[h].logged[1].timestamp
                     IN  /\ handlers'[h].marked
                         /\ sid \in DOMAIN hook_timestamps'
                         /\ hook_timestamps'[sid] >= written
                         /\ handlers'[h].stopped <=> handlers'[h].hook_type = "Stop"
                         /\ handlers'[h].hook_type = "Stop"
                            => /\ sid \in DOMAIN stop_timestamps'
                               /\ stop_timestamps'[sid] >= written
                ELSE ~handlers'[h].marked /\ ~handlers'[h].stopped
       /\ stop_timestamps' # stop_timestamps
          => \E h \in Handlers :
                /\ handlers[h].pc = "mark_stop" /\ HandlerSteps(h)
                /\ handlers[h].hook_type = "Stop" /\ handlers[h].wrote
                /\ stop_timestamps' =
                      MapInsert(stop_timestamps, Unwrap(handlers[h].session_id), now)
       /\ hook_timestamps' # hook_timestamps
          => \E h \in Handlers :
                /\ handlers[h].pc = "mark_hook" /\ HandlerSteps(h)
                /\ handlers[h].wrote
                /\ hook_timestamps' =
                      MapInsert(hook_timestamps, Unwrap(handlers[h].session_id), now)]_vars

\* A Stop handler wrote at time 0 and set both marks half a second later,
\* beside a Notification handler that wrote and set the hook mark only.
C22_Witness ==
    /\ handlers[1].pc = "done" /\ handlers[1].hook_type = "Stop"
    /\ handlers[1].wrote /\ handlers[1].logged[1].timestamp = 0
    /\ handlers[1].session_id = Some("tmux:a:0.0")
    /\ handlers[2].pc = "done" /\ handlers[2].hook_type = "Notification"
    /\ handlers[2].wrote /\ handlers[2].marked /\ ~handlers[2].stopped
    /\ "tmux:a:0.0" \in DOMAIN stop_timestamps
    /\ stop_timestamps["tmux:a:0.0"] = 500
    /\ hook_timestamps["tmux:a:0.0"] = 500

\* The scanner's write step takes the hook-protected branch: its check for
\* the pane found the hook timestamp less than HOOK_GRACE_PERIOD_SECS old and
\* the session is registered.
KeepsHookState ==
    /\ ScannerWrites
    /\ Unwrap(scan.cur).hook_protected
    /\ SessionId(Unwrap(scan.cur).target) \in DOMAIN sessions

Upserts ==
    /\ ScannerWrites
    /\ ~(/\ Unwrap(scan.cur).hook_protected
         /\ SessionId(Unwrap(scan.cur).target) \in DOMAIN sessions)

\* C24 (Spec): an upsert always stores the record computed for the pane, and
\* emits one session-update exactly when the session was not registered or
\* its stored state differs from the computed one; with the state unchanged
\* nothing is emitted, whatever the stored pending_action and last_activity.
C24_SilentUpsert ==
    [][Upserts
       => LET cur == Unwrap(scan.cur)
              sid == SessionId(cur.target)
          IN  /\ sid \in DOMAIN sessions'
              /\ sessions'[sid].state = cur.conv_state.state
              /\ sessions'[sid].pending_action = cur.conv_state.pending_action
              /\ sessions'[sid].project_path = Some(cur.cwd)
              /\ sessions'[sid].project_name = cur.project_name
              /\ \A other \in DOMAIN sessions \ {sid} : sessions'[other] = sessions[other]
              /\ IF sid \notin DOMAIN sessions
                 THEN scan'.outbox = {Emit("session-update", sid, FALSE)}
                 ELSE IF sessions[sid].state # cur.conv_state.state
                 THEN scan'.outbox = {Emit("session-update", sid, FALSE)}
                 ELSE scan'.outbox = {}]_vars

\* A Notification hook wrote AwaitingInput with no pending action at 0.5 s;
\* after the grace period the scanner, computing AwaitingInput as well, has
\* replaced pending_action and last_activity and emitted nothing.
C24_Witness ==
    /\ scan.pc = "remove" /\ scan.found_targets = {"a:0.0"}
    /\ scan.kept = {} /\ scan.outbox = {}
    /\ now = 10500
    /\ handlers[1].pc = "done" /\ handlers[1].hook_type = "Notification"
    /\ handlers[1].wrote /\ handlers[1].logged[1].timestamp = 500
    /\ "tmux:a:0.0" \in DOMAIN sessions
    /\ hook_timestamps["tmux:a:0.0"] = 500
    /\ sessions["tmux:a:0.0"].state = "AwaitingInput"
    /\ sessions["tmux:a:0.0"].pending_action = Some(InputAction)
    /\ sessions["tmux:a:0.0"].last_activity = 0

\* C25 (SpecVanish): the removal pass removes exactly the registered
\* sessions with a "tmux:" id whose target the cycle did not enumerate,
\* whatever their hook timestamps, and emits one session-removed event with
\* the id of each; every other session stays as it was.
C25_RemovalPass ==
    [][(scan.pc = "remove" /\ scan'.pc # "remove")
       => LET gone == {id \in DOMAIN sessions :
                          /\ StartsWith(id, "tmux:")
                          /\ \A target \in scan.found_targets : id # "tmux:" \o target}
          IN  /\ DOMAIN sessions' = DOMAIN sessions \ gone
              /\ \A id \in DOMAIN sessions' : sessions'[id] = sessions[id]
              /\ scan'.outbox = {Emit("session-removed", id, TRUE) : id \in gone}
              /\ \A e \in scan'.outbox : e.event = "session-removed" /\ e.id \in gone
              /\ Cardinality(scan'.outbox) = Cardinality(gone)]_vars

\* The session was marked by a Stop at time 0 and written again by a second
\* Stop at 0.5 s, so it was registered and hook-protected then; the removal
\* pass has since removed it and announced the removal.
C25_Witness ==
    /\ now = 500
    /\ scan.pc = "sleep"
    /\ scan.outbox = {Emit("session-removed", "tmux:a:0.0", TRUE)}
    /\ sessions = EmptyMap
    /\ handlers[1].pc = "done" /\ handlers[1].marked
    /\ handlers[2].pc = "mark_hook" /\ handlers[2].wrote
    /\ handlers[2].logged[1].timestamp = 500
    /\ hook_timestamps = MapInsert(EmptyMap, "tmux:a:0.0", 0)

\* The modification time the scanner sees for a pane's transcript.
MtimeOf(jsonl) == IF jsonl = None THEN None ELSE Some(Unwrap(jsonl).mtime)

\* The scanner takes up a pane and infers its state.
Infers == scan.pc = "pane" /\ scan'.pc = "write"

Inference(state, pending_action) == [state |-> state, pending_action |-> pending_action]

InferenceOf(conv_state) == Inference(conv_state.state, conv_state.pending_action)

\* The idle-glyph branch: the reader's result, or AwaitingInput with the
\* generic pending action when the pane has no transcript.
IdleInference(jsonl, clock) ==
    IF jsonl = None
    THEN Inference("AwaitingInput", Some(InputAction))
    ELSE InferenceOf(DetectStateFromJsonl(Unwrap(jsonl), clock))

\* Classification with the title tested first, then the foreground command.
TitleFirst(pane_title, pane_command, jsonl, clock) ==
    IF StartsWith(pane_title, IDLE_MARKER) THEN IdleInference(jsonl, clock)
    ELSE IF pane_command = "zsh" THEN Inference("Complete", None)
    ELSE Inference("Processing", None)

\* Classification with the foreground command tested first, then the title.
ShellFirst(pane_title, pane_command, jsonl, clock) ==
    IF pane_command = "zsh" THEN Inference("Complete", None)
    ELSE IF StartsWith(pane_title, IDLE_MARKER) THEN IdleInference(jsonl, clock)
    ELSE Inference("Processing", None)

\* C26 as stated (SpecRead): the scanner classifies a pane by its title
\* first: an idle-glyph title gets the reader's result (AwaitingInput with
\* the generic pending action without a transcript), otherwise a shell pane
\* gets Complete and any other pane Processing, both with no pending action;
\* and that is what it writes to an unprotected session.
C26_TitleFirst ==
    [][/\ WritesInference
       /\ Infers
          => \A pane_title \in PaneTitles, pane_command \in PaneCommands,
                jsonl \in {None} \cup TurnFiles(now) :
                (/\ Unwrap(scan'.cur).mtime = MtimeOf(jsonl)
                 /\ ScanPane("/p", pane_title, pane_command, jsonl))
                => InferenceOf(Unwrap(scan'.cur).conv_state)
                      = TitleFirst(pane_title, pane_command, jsonl, now)]_vars

\* C26 (SpecRead): the scanner classifies a pane by its foreground command
\* first: a shell pane gets Complete with no pending action whatever its
\* title; otherwise an idle-glyph title gets the reader's result
\* (AwaitingInput with the generic pending action without a transcript) and
\* any other pane Processing with no pending action; and that is what it
\* writes to an unprotected session.
C26_ShellFirst ==
    [][/\ WritesInference
       /\ Infers
          => \A pane_title \in PaneTitles, pane_command \in PaneCommands,
                jsonl \in {None} \cup TurnFiles(now) :
                (/\ Unwrap(scan'.cur).mtime = MtimeOf(jsonl)
                 /\ ScanPane("/p", pane_title, pane_command, jsonl))
                => InferenceOf(Unwrap(scan'.cur).conv_state)
                      = ShellFirst(pane_title, pane_command, jsonl, now)]_vars

\* The scanner has classified a pane that has no transcript as awaiting input
\* with the generic pending action, for a session it found unprotected.
C26_Witness ==
    /\ scan.pc = "write"
    /\ Unwrap(scan.cur).mtime = None
    /\ ~Unwrap(scan.cur).hook_protected
    /\ Unwrap(scan.cur).conv_state.state = "AwaitingInput"
    /\ Unwrap(scan.cur).conv_state.pending_action = Some(InputAction)

\* The timestamp the scanner recovers for a pane: that of the last record of
\* the trailing window that carries one.
Recovered(jsonl) ==
    IF jsonl = None THEN None
    ELSE LastTimestamp(ReadLastLines(Unwrap(jsonl).lines, READ_LINES),
                       Len(ReadLastLines(Unwrap(jsonl).lines, READ_LINES)))

\* C27 (SpecRead): taking up a pane, the scanner recovers the timestamp of the
\* last transcript record that carries one and the modification time of the
\* transcript file; writing an unprotected session, it sets last_activity to
\* the recovered timestamp if there is one, otherwise to the modification
\* time if there is a file, otherwise to the current time.
C27_LastActivity ==
    [][/\ Infers
          => \A pane_title \in PaneTitles, pane_command \in PaneCommands,
                jsonl \in {None} \cup TurnFiles(now) :
                (/\ Unwrap(scan'.cur).mtime = MtimeOf(jsonl)
                 /\ ScanPane("/p", pane_title, pane_command, jsonl))
                => Unwrap(scan'.cur).conv_state.last_message_time = Recovered(jsonl)
       /\ Upserts
          => LET cur == Unwrap(scan.cur)
                 last_activity == sessions'[SessionId(cur.target)].last_activity
             IN  IF IsSome(cur.conv_state.last_message_time)
                 THEN last_activity = Unwrap(cur.conv_state.last_message_time)
                 ELSE IF IsSome(cur.mtime)
                 THEN last_activity = Unwrap(cur.mtime)
                 ELSE last_activity = now]_vars

\* The scanner has written a session from a transcript whose messages carry
\* the timestamp 100 and whose file was modified at another time.
C27_Witness ==
    /\ scan.pc = "remove"
    /\ now = 500
    /\ SessionId("a:0.0") \in DOMAIN sessions
    /\ sessions[SessionId("a:0.0")].last_activity = 100

\* The reader is applied to a transcript: the scanner takes up an idle-glyph
\* pane that runs the agent.
Reads(file) == ScanPane("/p", IDLE_MARKER \o " task", "claude", file)

IsToolResultTurn(turn) ==
    /\ turn.content.kind = "array"
    /\ \E i \in 1..Len(turn.content.blocks) : turn.content.blocks[i].type = "tool_result"

\* What is inferred from a user turn: Processing from a tool-result
\* continuation, and from free text awaiting input when stale, Processing
\* when not.
UserTurnInference(turn, stale) ==
    IF IsToolResultTurn(turn) THEN Inference("Processing", None)
    ELSE IF stale THEN Inference("AwaitingInput", Some(InputAction))
    ELSE Inference("Processing", None)

\* C28 as stated (SpecRead): when the most recent real turn of the transcript
\* is a user turn, the reader yields Processing with no pending action for a
\* tool-result continuation at any file age, and for free text AwaitingInput
\* with the generic pending action when the file is more than
\* STALE_INPUT_SECS old, Processing with no pending action otherwise.
C28_UserTurnAged ==
    [][Infers
       => \A file \in TurnFiles(now) :
             \A turn \in LastRealTurn(Unwrap(file).lines) :
                (/\ turn.type = "user"
                 /\ Unwrap(scan'.cur).mtime = MtimeOf(file)
                 /\ Reads(file))
                => InferenceOf(Unwrap(scan'.cur).conv_state)
                      = UserTurnInference(turn,
                           now - Unwrap(file).mtime > 1000 * STALE_INPUT_SECS)]_vars

\* C28 (SpecRead): the same, the file being stale when its age in whole
\* seconds is more than STALE_INPUT_SECS.
C28_UserTurn ==
    [][Infers
       => \A file \in TurnFiles(now) :
             \A turn \in LastRealTurn(Unwrap(file).lines) :
                (/\ turn.type = "user"
                 /\ Unwrap(scan'.cur).mtime = MtimeOf(file)
                 /\ Reads(file))
                => InferenceOf(Unwrap(scan'.cur).conv_state)
                      = UserTurnInference(turn,
                           now - Unwrap(file).mtime >= 1000 * (STALE_INPUT_SECS + 1))]_vars

\* The scanner has read a transcript modified 16 s ago whose last real turn
\* is the user's free text stamped 200, and inferred awaiting input.
C28_Witness ==
    /\ scan.pc = "write"
    /\ Unwrap(scan.cur).mtime = Some(now - 16000)
    /\ Unwrap(scan.cur).conv_state =
          ConversationState("AwaitingInput", Some(InputAction), Some(200))

IsTextTurn(turn) ==
    /\ turn.content.kind = "array"
    /\ \E i \in 1..Len(turn.content.blocks) : turn.content.blocks[i].type = "text"

IsThinkingTurn(turn) ==
    /\ turn.content.kind = "array"
    /\ Len(turn.content.blocks) > 0
    /\ \A i \in 1..Len(turn.content.blocks) : turn.content.blocks[i].type = "thinking"

\* C29 (SpecRead): when the most recent real turn of the transcript is an
\* assistant turn without a tool-use block, the reader yields AwaitingInput
\* with the generic pending action if the turn has a text block, Processing
\* with no pending action if it has thinking blocks only, and AwaitingInput
\* if its content is a bare string, whatever the age of the file.
C29_AssistantTurn ==
    [][Infers
       => \A file \in TurnFiles(now) :
             \A turn \in LastRealTurn(Unwrap(file).lines) :
                (/\ turn.type = "assistant"
                 /\ ~IsToolUseTurn(turn)
                 /\ Unwrap(scan'.cur).mtime = MtimeOf(file)
                 /\ Reads(file))
                => LET inferred == InferenceOf(Unwrap(scan'.cur).conv_state)
                   IN  /\ IsTextTurn(turn)
                          => inferred = Inference("AwaitingInput", Some(InputAction))
                       /\ IsThinkingTurn(turn) => inferred = Inference("Processing", None)
                       /\ turn.content.kind = "string" => inferred.state = "AwaitingInput"]_vars

\* The scanner has read a transcript modified this instant whose last turn,
\* stamped 100, has a thinking and a text block, and inferred awaiting input.
C29_Witness ==
    /\ scan.pc = "write"
    /\ Unwrap(scan.cur).mtime = Some(now)
    /\ Unwrap(scan.cur).conv_state =
          ConversationState("AwaitingInput", Some(InputAction), Some(100))

\* A real turn the reader has an answer for: any user turn, and an assistant
\* turn with a tool-use, text or thinking block or with bare-string content.
Classified(turn) ==
    \/ turn.type = "user"
    \/ /\ turn.type = "assistant"
       /\ \/ turn.content.kind = "string"
          \/ /\ turn.content.kind = "array"
             /\ \E i \in 1..Len(turn.content.blocks) :
                   turn.content.blocks[i].type \in {"tool_use", "text", "thinking"}

NoClassifiedTurn(lines) ==
    \A i \in 1..Len(lines) :
       (lines[i].parses /\ IsConversationMessage(lines[i])) => ~Classified(lines[i])

\* C30 as stated (SpecRead): when the trailing window of the transcript has
\* no classified real turn, lines or none, the reader yields AwaitingInput
\* with the generic pending action when the file is more than
\* STALE_INPUT_SECS old, and Processing otherwise.
C30_NoTurnAged ==
    [][Infers
       => \A file \in TurnFiles(now) :
             (/\ NoClassifiedTurn(ReadLastLines(Unwrap(file).lines, READ_LINES))
              /\ Unwrap(scan'.cur).mtime = MtimeOf(file)
              /\ Reads(file))
             => LET inferred == InferenceOf(Unwrap(scan'.cur).conv_state)
                IN  IF now - Unwrap(file).mtime > 1000 * STALE_INPUT_SECS
                    THEN inferred = Inference("AwaitingInput", Some(InputAction))
                    ELSE inferred.state = "Processing"]_vars

\* C30 (SpecRead): when the trailing window of the transcript has lines but
\* no classified real turn, the reader yields AwaitingInput with the generic
\* pending action when the age of the file in whole seconds is more than
\* STALE_INPUT_SECS, and Processing with no pending action otherwise; when
\* the transcript has no lines it yields Processing with no pending action.
C30_NoTurn ==
    [][Infers
       => \A file \in TurnFiles(now) :
             (/\ NoClassifiedTurn(ReadLastLines(Unwrap(file).lines, READ_LINES))
              /\ Unwrap(scan'.cur).mtime = MtimeOf(file)
              /\ Reads(file))
             => LET inferred == InferenceOf(Unwrap(scan'.cur).conv_state)
                IN  IF /\ Unwrap(file).lines # <<>>
                       /\ now - Unwrap(file).mtime >= 1000 * (STALE_INPUT_SECS + 1)
                    THEN inferred = Inference("AwaitingInput", Some(InputAction))
                    ELSE inferred = Inference("Processing", None)]_vars

\* The scanner has read a transcript modified 16 s ago that holds a system
\* record stamped 400 and an unparsable line, and inferred awaiting input.
C30_Witness ==
    /\ scan.pc = "write"
    /\ Unwrap(scan.cur).mtime = Some(now - 16000)
    /\ Unwrap(scan.cur).conv_state =
          ConversationState("AwaitingInput", Some(InputAction), Some(400))

\* The most recent real turn of the window the reader has an answer for.
LastClassifiedTurn(lines) ==
    {lines[i] : i \in {k \in 1..Len(lines) :
        /\ lines[k].parses /\ IsConversationMessage(lines[k]) /\ Classified(lines[k])
        /\ \A m \in (k + 1)..Len(lines) :
              ~(lines[m].parses /\ IsConversationMessage(lines[m]) /\ Classified(lines[m]))}}

\* What the reader infers from a transcript of the same age that holds the
\* one turn only.
AloneInference(turn, file, clock) ==
    InferenceOf(DetectStateFromJsonl([mtime |-> Unwrap(file).mtime, lines |-> <<turn>>], clock))

\* C31 as stated (SpecRead): the reader infers from a transcript what it
\* infers from a transcript of the same age that holds only the window's most
\* recent real turn, whatever the shape of that turn.
C31_LastRealTurnDecides ==
    [][Infers
       => \A file \in TurnFiles(now) :
             \A turn \in LastRealTurn(ReadLastLines(Unwrap(file).lines, READ_LINES)) :
                (/\ Unwrap(scan'.cur).mtime = MtimeOf(file)
                 /\ Reads(file))
                => InferenceOf(Unwrap(scan'.cur).conv_state) = AloneInference(turn, file, now)]_vars

\* C31 (SpecRead): the reader infers from a transcript what it infers from a
\* transcript of the same age that holds only the window's most recent real
\* turn that is a user turn or an assistant turn with a tool-use, text or
\* thinking block or bare-string content.
C31_LastClassifiedTurnDecides ==
    [][Infers
       => \A file \in TurnFiles(now) :
             \A turn \in LastClassifiedTurn(ReadLastLines(Unwrap(file).lines, READ_LINES)) :
                (/\ Unwrap(scan'.cur).mtime = MtimeOf(file)
                 /\ Reads(file))
                => InferenceOf(Unwrap(scan'.cur).conv_state) = AloneInference(turn, file, now)]_vars

\* The scanner has read a transcript modified 16 s ago in which an assistant
\* turn with an image block follows a turn that uses Bash, neither stamped,
\* and inferred awaiting permission for Bash.
C31_Witness ==
    /\ scan.pc = "write"
    /\ Unwrap(scan.cur).mtime = Some(now - 16000)
    /\ Unwrap(scan.cur).conv_state =
          ConversationState("AwaitingPermission",
             Some(PermissionAction(Some("Bash"), Some("ls -la"))), None)

Timestamps(lines) ==
    {Unwrap(ExtractMessageTimestamp(lines[i])) :
        i \in {k \in 1..Len(lines) :
                  lines[k].parses /\ IsSome(ExtractMessageTimestamp(lines[k]))}}

NewestTimestamp(lines) ==
    IF Timestamps(lines) = {} THEN None
    ELSE Some(CHOOSE t \in Timestamps(lines) : \A u \in Timestamps(lines) : u <= t)

\* C32 (SpecRead): the last-activity timestamp the reader returns is the
\* greatest of the timestamps the records of the trailing window carry, and
\* is absent only when none carries one.
C32_NewestTimestamp ==
    [][Infers
       => \A file \in TurnFiles(now) :
             (/\ Unwrap(scan'.cur).mtime = MtimeOf(file)
              /\ Reads(file))
             => Unwrap(scan'.cur).conv_state.last_message_time
                   = NewestTimestamp(ReadLastLines(Unwrap(file).lines, READ_LINES))]_vars

\* The characters of a command: the bytes that start one.
Chars(s) == Cardinality({i \in 1..Len(s) : SubSeq(s, i, i) # CONTINUATION_BYTE})

FirstChars(s, n) ==
    SubSeq(s, 1, CHOOSE k \in 0..Len(s) :
                    Chars(SubSeq(s, 1, k)) = n /\ IsCharBoundary(s, k))

\* The command text a pending action holds for a source command.
StoredCommand(s) ==
    IF Chars(s) <= MAX_COMMAND_LEN THEN s ELSE FirstChars(s, COMMAND_KEEP_LEN) \o "..."

\* C33 (SpecCommand): a hook write for a permission request sets state,
\* last_activity and pending_action together, whatever the command, and the
\* reader's inference completes for every command; the command either
\* stores is the source command when that has at most MAX_COMMAND_LEN
\* characters, otherwise its first COMMAND_KEEP_LEN characters followed by
\* "...", and so never has more than MAX_COMMAND_LEN characters.
C33_CommandTruncation ==
    [][/\ \A h \in Handlers :
             (/\ handlers[h].pc = "write" /\ HandlerSteps(h)
              /\ Unwrap(handlers[h].session_id) \in DOMAIN sessions)
             => \A input \in CommandInputs :
                   HookWrite(h, input)
                   => LET session == sessions'[Unwrap(handlers[h].session_id)]
                      IN  /\ handlers'[h].wrote
                          /\ session.state = "AwaitingPermission"
                          /\ session.last_activity = now
                          /\ IsSome(session.pending_action)
                          /\ Unwrap(session.pending_action).command
                                = Some(StoredCommand(Unwrap(input.command)))
                          /\ Chars(Unwrap(Unwrap(session.pending_action).command))
                                <= MAX_COMMAND_LEN
       /\ (scan.pc = "pane" /\ scan'.pc # "pane")
          => \A file \in CommandFiles(now) :
                ScanPane("/p", IDLE_MARKER \o " task", "claude", file)
                => /\ scan'.pc = "write"
                   /\ LET inferred == Unwrap(scan'.cur).conv_state
                           command == Unwrap(Unwrap(file).lines[1].content.blocks[1].command)
                       IN  inferred.state = "AwaitingPermission"
                           => Unwrap(inferred.pending_action).command
                                 = Some(StoredCommand(command))]_vars

\* C34 (SpecPair): every key of the registry is its record's id and is
\* "tmux:" followed by the record's tmux target; a key is added only by the
\* scanner's write, and no step of a hook handler adds or removes a key.
C34_RegistryKeys ==
    /\ [](\A sid \in DOMAIN sessions :
            /\ sessions[sid].id = sid
            /\ IsSome(sessions[sid].tmux_target)
            /\ sid = "tmux:" \o Unwrap(sessions[sid].tmux_target))
    /\ [][/\ DOMAIN sessions' \ DOMAIN sessions # {}
             => /\ ScannerWrites
                /\ DOMAIN sessions' \ DOMAIN sessions
                      = {"tmux:" \o Unwrap(scan.cur).target}
          /\ \A h \in Handlers :
                HandlerSteps(h) => DOMAIN sessions' = DOMAIN sessions]_vars

\* Two sessions are registered and a handler has written one of them.
C34_Witness ==
    /\ Cardinality(DOMAIN sessions) = 2
    /\ handlers[1].wrote
    /\ handlers[1].pc = "done"

\* C35 (SpecPair): a step of a hook handler changes no session record other
\* than the one the handler matched and no entry of the timestamp tables
\* other than that session's; the handler writes the record at most once,
\* sets the hook-protection mark at most once, and emits its change event
\* with that mark.
C35_OneSession ==
    [][\A h \in Handlers :
          HandlerSteps(h)
          => /\ \A sid \in DOMAIN sessions :
                   Some(sid) # handlers'[h].session_id
                   => sid \in DOMAIN sessions' /\ sessions'[sid] = sessions[sid]
             /\ \A sid \in {SessionId(t) : t \in Targets} :
                   Some(sid) # handlers'[h].session_id
                   => /\ sid \in DOMAIN hook_timestamps' <=> sid \in DOMAIN hook_timestamps
                      /\ sid \in DOMAIN stop_timestamps' <=> sid \in DOMAIN stop_timestamps
                      /\ sid \in DOMAIN notification_timestamps'
                            <=> sid \in DOMAIN notification_timestamps
                      /\ sid \in DOMAIN hook_timestamps
                            => hook_timestamps'[sid] = hook_timestamps[sid]
                      /\ sid \in DOMAIN stop_timestamps
                            => stop_timestamps'[sid] = stop_timestamps[sid]
                      /\ sid \in DOMAIN notification_timestamps
                            => notification_timestamps'[sid] = notification_timestamps[sid]
             /\ sessions' # sessions => ~handlers[h].wrote /\ handlers'[h].wrote
             /\ hook_timestamps' # hook_timestamps => ~handlers[h].marked /\ handlers'[h].marked
             /\ handlers'[h].emitted => handlers'[h].marked
             /\ handlers[h].session_id # None => handlers'[h].session_id = handlers[h].session_id]_vars

\* Two sessions of the same path are registered; a handler for that path has
\* written, marked and announced one of them, and the other has no mark.
C35_Witness ==
    /\ DOMAIN sessions = {SessionId("a:0.0"), SessionId("b:0.0")}
    /\ sessions[SessionId("a:0.0")].project_path = Some("/p")
    /\ sessions[SessionId("b:0.0")].project_path = Some("/p")
    /\ handlers[1].cwd = "/p"
    /\ handlers[1].wrote /\ handlers[1].marked /\ handlers[1].emitted
    /\ Cardinality(DOMAIN hook_timestamps) = 1
    /\ sessions[SessionId("a:0.0")].state # sessions[SessionId("b:0.0")].state

\* The one handler has answered, its write made the session Complete, and
\* the mark it set is HOOK_GRACE_PERIOD_SECS old or older.
HookStateExpired ==
    /\ handlers[1].pc = "done" /\ handlers[1].wrote /\ handlers[1].marked
    /\ SessionId("a:0.0") \in DOMAIN sessions
    /\ sessions[SessionId("a:0.0")].state = "Complete"
    /\ SessionId("a:0.0") \in DOMAIN hook_timestamps
    /\ now - hook_timestamps[SessionId("a:0.0")] >= 1000 * HOOK_GRACE_PERIOD_SECS

NotifyingTypes == {"PermissionRequest", "Notification", "Stop", "SessionStart"}

\* The handler answers that no session matched.
AnswersNoMatch(h) ==
    /\ handlers[h].pc # "done" /\ handlers'[h].pc = "done"
    /\ handlers'[h].response = Some("no_match")

\* C38 (SpecUnmatched): a handler that answers "no_match" delivers a
\* notification exactly when notifications are enabled and its event is of a
\* notifying type, whatever other requests were made and when, and leaves
\* the debounce table as it was.
C38_UnmatchedNotifies ==
    [][\A h \in Handlers :
          AnswersNoMatch(h)
          => /\ notification_timestamps' = notification_timestamps
             /\ \A notifications_enabled \in BOOLEAN :
                   (\/ HookReceive(h, handlers'[h].hook_type, "/q", FALSE, notifications_enabled)
                    \/ HookMatch(h, notifications_enabled))
                   => (handlers'[h].delivered
                         <=> /\ notifications_enabled
                             /\ handlers'[h].hook_type \in NotifyingTypes)]_vars

\* Three events of notifying types for a directory with no session, all at
\* the same instant: each delivered a notification, and the debounce table
\* is empty.
C38_Witness ==
    /\ \A h \in Handlers :
          /\ handlers[h].response = Some("no_match")
          /\ handlers[h].hook_type \in NotifyingTypes
          /\ handlers[h].asked = Some(0)
          /\ handlers[h].delivered
    /\ DOMAIN sessions # {}
    /\ notification_timestamps = EmptyMap

\* The handler reaches its write and the session it matched is gone.
FindsRemoved(h) ==
    /\ handlers[h].pc = "write" /\ HandlerSteps(h)
    /\ Unwrap(handlers[h].session_id) \notin DOMAIN sessions

\* C39 (SpecPair): a handler whose matched session has been removed before
\* its write leaves the registry, the hook-protection table and the stop
\* table as they are in that step and in its answer, logs nothing, and
\* answers "matched:" with the removed id without having written, marked or
\* announced anything.
C39_RemovedBeforeWrite ==
    [][\A h \in Handlers :
          /\ FindsRemoved(h)
             => /\ sessions' = sessions
                /\ hook_timestamps' = hook_timestamps
                /\ stop_timestamps' = stop_timestamps
                /\ hook_events' = hook_events
                /\ handlers'[h].pc = "debounce"
                /\ ~handlers'[h].wrote
          /\ (Finishes(h) /\ handlers[h].pc = "debounce" /\ ~handlers[h].wrote)
             => /\ sessions' = sessions
                /\ hook_timestamps' = hook_timestamps
                /\ stop_timestamps' = stop_timestamps
                /\ hook_events' = hook_events
                /\ handlers'[h].response
                      = Some("matched:" \o Unwrap(handlers[h].session_id))
                /\ ~handlers'[h].wrote /\ ~handlers'[h].marked
                /\ ~handlers'[h].stopped /\ ~handlers'[h].emitted]_vars

\* The handler matched tmux:a:0.0, found it gone at its write, and answered
\* "matched:tmux:a:0.0"; the session is not registered and has no mark.
C39_Witness ==
    /\ handlers[1].pc = "done"
    /\ handlers[1].response = Some("matched:tmux:a:0.0")
    /\ IsSome(handlers[1].asked)
    /\ ~handlers[1].wrote /\ ~handlers[1].marked /\ ~handlers[1].emitted
    /\ handlers[1].logged = <<>>
    /\ SessionId("a:0.0") \notin DOMAIN sessions
    /\ SessionId("a:0.0") \notin DOMAIN hook_timestamps

====
